---- MODULE Spec2Model ----
(***************************************************************************)
(* State-machine model of the agent orchestration core of doc-agent:       *)
(*   - VectorSearchTool.search over EmbeddingService.search_similar_chunks *)
(*   - ChatAgentWithTools.chat and its load_context/agent/tools/save graph *)
(*   - DeepResearchAgent.conduct_research and its six-step pipeline        *)
(*   - MetadataExtractor.extract_metadata and its fallback chain           *)
(* Each subsystem has its own next-state relation and specification; the   *)
(* variables of the other subsystems stay at their initial values.         *)
(* Similarity scores and thresholds are in tenths (0.3 is 3, 0.6 is 6).    *)
(***************************************************************************)
EXTENDS Integers, Sequences, FiniteSets, TLC

VARIABLES
    \* ---- VectorSearchTool.search / EmbeddingService.search_similar_chunks
    use_relevance_scores,   \* hasattr(vector_store, 'similarity_search_with_relevance_scores')
    namespace_supported,    \* FALSE: the store's search raises TypeError on namespace=
    tool_pc,                \* position inside VectorSearchTool.search
    tool_args,              \* the arguments of the running search() call
    es_frame,               \* arguments of the running search_similar_chunks invocation
    es_calls,               \* the search_similar_chunks invocations of this call, in order
    similar_chunks,         \* what search_similar_chunks returned
    tool_failure,           \* which underlying part failed: "none", "search", "format"
    tool_raised,            \* TRUE iff search() let an exception out to its caller
    tool_result             \* the dict search() returned

vars_search == << use_relevance_scores, namespace_supported, tool_pc, tool_args,
                  es_frame, es_calls, similar_chunks, tool_failure, tool_raised,
                  tool_result >>

\* ---- ChatAgentWithTools
VARIABLES
    final_state_is_dict,  \* ainvoke handed back a dict instead of a ChatState
    chat_pc,              \* "idle", a workflow node, "end", "returned" or "raised"
    chat_session_arg,     \* session_id as passed to chat()
    chat_session_id,      \* state.session_id
    chat_document_id,     \* state.document_id
    chat_messages,        \* state.messages
    chat_history,         \* state.chat_history
    chat_sources_used,    \* state.sources_used
    chat_tool_calls,      \* state.tool_calls
    chat_current_step,    \* state.current_step
    chat_errors,          \* state.errors
    chat_supersteps,      \* workflow nodes executed in this run
    agent_runs,           \* executions of _run_agent in this turn
    tools_runs,           \* executions of _run_tools in this turn
    save_runs,            \* executions of _save_chat_interaction in this turn
    chat_failures,        \* the parts of the turn that failed
    chat_result,          \* the dict chat() returned
    db_sessions,          \* ChatSession rows (ids)
    db_messages,          \* ChatMessage rows, oldest first
    db_last_activity      \* per ChatSession row: writes of last_activity

vars_chat == << final_state_is_dict, chat_pc, chat_session_arg, chat_session_id,
                chat_document_id, chat_messages, chat_history, chat_sources_used,
                chat_tool_calls, chat_current_step, chat_errors, chat_supersteps,
                agent_runs, tools_runs, save_runs, chat_failures, chat_result,
                db_sessions, db_messages, db_last_activity >>

\* ---- DeepResearchAgent
VARIABLES
    research_pc,          \* "idle", a workflow node, "end", "returned" or "raised"
    r_document_id,        \* state.document_id
    r_task_id,            \* the local task_id of conduct_research (None: unassigned)
    r_questions,          \* state.research_questions
    r_retrieved,          \* state.retrieved_information
    r_outline,            \* state.content_outline
    r_sections,           \* state.detailed_sections, in insertion order
    r_sources_used,       \* state.sources_used
    r_current_step,       \* state.current_step
    r_errors,             \* state.errors
    r_failures,           \* the parts of the run that failed
    r_step_runs,          \* per workflow node: executions in this run
    r_search_calls,       \* search_similar_chunks calls issued by the workflow
    r_llm_calls,          \* self.llm.ainvoke calls issued by the workflow
    r_result,             \* the dict conduct_research returned
    r_raised,             \* the exception conduct_research raised (None: none)
    db_task               \* the ResearchTask row (None: no row)

vars_research == << research_pc, r_document_id, r_task_id, r_questions, r_retrieved,
                    r_outline, r_sections, r_sources_used, r_current_step, r_errors,
                    r_failures, r_step_runs, r_search_calls, r_llm_calls, r_result,
                    r_raised, db_task >>

\* ---- MetadataExtractor
VARIABLES
    extract_pc,           \* "idle", a stage of extract_metadata, "returned" or "raised"
    x_document_id,        \* document_id as passed to extract_metadata
    x_text,               \* full_text, by the features the extraction looks at
    x_financial_facts,    \* the local financial_facts (empty dict: None)
    x_investment_data,    \* the local investment_data (empty dict: not yet set)
    x_stages,             \* the stages run so far, each with what it yielded
    x_calls,              \* completions requested so far, each with how it ended
    x_scopes,             \* the get_db_session scopes run so far, each with its events
    x_result,             \* the metadata dict extract_metadata returned
    x_raised,             \* the exception extract_metadata raised (None: none)
    db_document           \* the metadata columns of the Document row

vars_extract == << extract_pc, x_document_id, x_text, x_financial_facts,
                   x_investment_data, x_stages, x_calls, x_scopes, x_result,
                   x_raised, db_document >>

\* ---- two chat() runs on the one ChatAgentWithTools instance
VARIABLES
    run_pc,               \* per run: "idle", "tools", "invoked", "searching", "stored", "done"
    run_document_id,      \* per run: state.document_id
    run_calls_left,       \* per run: tool calls of the agent message not yet executed
    run_tool,             \* per run: tool_to_run of _run_tools (0: none)
    run_storage,          \* per run: the local sources_storage of _run_tools
    run_sources_used,     \* per run: state.sources_used
    run_search_document,  \* per run: document_id local of the running search_document
    tool_objects,         \* the tool objects get_tools() has made, with their attributes
    run_searches          \* every vector_search_tool.search call: for which run, which id

vars_runs == << run_pc, run_document_id, run_calls_left, run_tool, run_storage,
                run_sources_used, run_search_document, tool_objects, run_searches >>

\* ---- GET /documents/{document_id}
VARIABLES
    api_pc,               \* "idle", "validated" (dependencies resolved) or "responded"
    api_document_id,      \* the path parameter of the running request
    api_lookups,          \* database queries the running request has made
    api_status,           \* HTTP status of the running request (0: none yet)
    api_log               \* the requests answered so far: id, status, queries made

vars_api == << api_pc, api_document_id, api_lookups, api_status, api_log >>

\* ---- process_document_pipeline, one background run per uploaded document
VARIABLES
    pl_pc,                \* per document: "queued", "processed", "embedded", "done", "failed"
    pl_started,           \* per document: the stages started so far, in order
    pl_failed,            \* per document: the stage that raised (None: none)
    pl_error_writes,      \* per document: the error handlers whose write was committed
    db_documents          \* per document: the Document row

vars_pipeline == << pl_pc, pl_started, pl_failed, pl_error_writes, db_documents >>

\* (variable groups of further subsystems are declared above this line)

\* What each subsystem's actions leave alone.
not_search ==
    << vars_chat, vars_research, vars_extract, vars_runs, vars_api, vars_pipeline >>
not_chat ==
    << vars_search, vars_research, vars_extract, vars_runs, vars_api, vars_pipeline >>
not_research ==
    << vars_search, vars_chat, vars_extract, vars_runs, vars_api, vars_pipeline >>
not_extract ==
    << vars_search, vars_chat, vars_research, vars_runs, vars_api, vars_pipeline >>
not_runs ==
    << vars_search, vars_chat, vars_research, vars_extract, vars_api, vars_pipeline >>
not_pipeline == << vars_search, vars_chat, vars_research, vars_extract, vars_runs, vars_api >>
not_api ==
    << vars_search, vars_chat, vars_research, vars_extract, vars_runs, vars_pipeline >>

(***************************************************************************)
(* Bounds of the model                                                     *)
(***************************************************************************)
MaxResults == 2          \* hits one vector-store query returns at most
MaxSearchDepth == 3      \* search_similar_chunks invocations explored per call
MaxToolCalls == 2        \* tool calls one concurrent chat run executes at most
MaxChunks == 2           \* chunks process_document stores for one document at most
MaxRequests == 3         \* GET /documents/{document_id} requests answered in a row

None == "None"
DocIds == {"d1", "d2"}

(***************************************************************************)
(* The indexed data: four vectors, two per document.  Chunks 1 and 2 share *)
(* their first 100 characters; chunk 4 has a vector but no database row.   *)
(***************************************************************************)
Rep(n, ch) == [i \in 1..n |-> ch]

ChunkIds == 1..4

ChunkDoc(c) == IF c \in {1, 2} THEN "d1" ELSE "d2"

PageContent(c) ==
    CASE c = 1 -> Rep(100, "a") \o <<"x">>
      [] c = 2 -> Rep(100, "a") \o <<"y", "z">>
      [] c = 3 -> <<"r", "e", "v", "e", "n", "u", "e">>
      [] OTHER -> <<"q">>

ChunkRows == {1, 2, 3}                       \* DocumentChunk rows present
ChunkPage(c) == IF c = 2 THEN 2 ELSE 1       \* DocumentChunk.page_number
ChunkIndex(c) == c - 1                       \* DocumentChunk.chunk_index

Scores == {2, 4, 7}

Max(a, b) == IF a >= b THEN a ELSE b

(***************************************************************************)
(* EmbeddingService.search_similar_chunks                                  *)
(***************************************************************************)
RelaxGuardThreshold == 3      \* "similarity_threshold > 0.3"
RelaxedThreshold == 3         \* "similarity_threshold=0.3" of the retry
RelaxedTopKFloor == 12        \* "top_k=max(top_k, 12)" of the retry

\* namespace = self._get_namespace(document_id) if document_id else None
get_namespace(document_id) ==
    IF document_id # None THEN <<"doc", document_id>> ELSE None

\* The vectors a query can see: one namespace, or the whole index when no
\* namespace is given or when the TypeError fallback drops the namespace.
SearchScope(document_id) ==
    IF get_namespace(document_id) # None /\ namespace_supported
    THEN {c \in ChunkIds : get_namespace(ChunkDoc(c)) = get_namespace(document_id)}
    ELSE ChunkIds

\* What the vector store may answer: at most k hits <<chunk_id, score>>,
\* distinct chunks, best score first.
StoreHits(scope, k) ==
    {h \in UNION {[1..n -> scope \X Scores] : n \in 0..(IF k < MaxResults THEN k ELSE MaxResults)} :
        /\ \A i, j \in 1..Len(h) : i < j => h[i][1] # h[j][1]
        /\ \A i \in 1..(Len(h) - 1) : h[i][2] >= h[i + 1][2]}

ChunkDict(hit) ==
    [chunk_id |-> hit[1],
     content |-> PageContent(hit[1]),
     similarity_score |-> hit[2],
     page_number |-> ChunkPage(hit[1]),
     chunk_index |-> ChunkIndex(hit[1])]

\* A filter that never compares the score with the threshold.
KeepHit_ignores_threshold(hit, similarity_threshold) ==
    hit[1] \in ChunkRows

\* "if use_relevance_scores and score_value < similarity_threshold: continue"
\* and "if chunk:" for the database row.
KeepHit(hit, similarity_threshold) ==
    /\ ~(use_relevance_scores /\ hit[2] < similarity_threshold)
    /\ hit[1] \in ChunkRows

RECURSIVE ProcessResults(_, _)
ProcessResults(hits, similarity_threshold) ==
    IF hits = << >> THEN << >>
    ELSE (IF KeepHit(Head(hits), similarity_threshold)
          THEN << ChunkDict(Head(hits)) >> ELSE << >>)
         \o ProcessResults(Tail(hits), similarity_threshold)

\* "if not similar_chunks and similarity_threshold > 0.3"
ShouldRelax(chunks, similarity_threshold) ==
    chunks = << >> /\ similarity_threshold > RelaxGuardThreshold

\* Mutant: the retry raises top_k but keeps the caller's threshold.
RelaxedFrame_keeps_threshold(frame) ==
    [top_k |-> Max(frame.top_k, RelaxedTopKFloor),
     similarity_threshold |-> frame.similarity_threshold]

\* The arguments of the recursive call.
RelaxedFrame(frame) ==
    [top_k |-> Max(frame.top_k, RelaxedTopKFloor),
     similarity_threshold |-> RelaxedThreshold]

(***************************************************************************)
(* VectorSearchTool                                                        *)
(***************************************************************************)
default_max_tokens_per_source == 1000
chars_per_token == 4
DedupPrefixLen == 100

\* Python's s[:n], negative n included.
PyPrefix(s, n) ==
    IF n >= Len(s) THEN s
    ELSE IF n >= 0 THEN SubSeq(s, 1, n)
    ELSE IF Len(s) + n > 0 THEN SubSeq(s, 1, Len(s) + n) ELSE << >>

\* "token_cap = max_tokens_per_source or self.max_tokens_per_source"
TokenCap(mts) ==
    IF mts.kind = "int" /\ mts.n # 0 THEN mts.n ELSE default_max_tokens_per_source

FormatEntry(chunk, token_cap) ==
    LET max_chars == token_cap * chars_per_token
        long == Len(chunk.content) > max_chars
    IN  [page |-> chunk.page_number,
         similarity |-> chunk.similarity_score,
         content |-> IF long THEN PyPrefix(chunk.content, max_chars) ELSE chunk.content,
         ellipsis |-> long]

\* Mutant: a chunk is skipped only when its whole content was seen before.
RECURSIVE DedupFormat_whole_content(_, _, _)
DedupFormat_whole_content(chunks, seen_content, token_cap) ==
    IF chunks = << >> THEN << >>
    ELSE IF Head(chunks).content \in seen_content
         THEN DedupFormat_whole_content(Tail(chunks), seen_content, token_cap)
         ELSE << FormatEntry(Head(chunks), token_cap) >>
              \o DedupFormat_whole_content(Tail(chunks),
                                           seen_content \cup {Head(chunks).content},
                                           token_cap)

\* The "for chunk in chunks" loop of _deduplicate_and_format_sources.
RECURSIVE DedupFormat(_, _, _)
DedupFormat(chunks, seen_content, token_cap) ==
    IF chunks = << >> THEN << >>
    ELSE LET content_preview == PyPrefix(Head(chunks).content, DedupPrefixLen)
         IN  IF content_preview \in seen_content
             THEN DedupFormat(Tail(chunks), seen_content, token_cap)
             ELSE << FormatEntry(Head(chunks), token_cap) >>
                  \o DedupFormat(Tail(chunks), seen_content \cup {content_preview}, token_cap)

\* formatted_results: the entries that "\n---\n".join concatenates; the empty
\* sequence is the empty string.
deduplicate_and_format_sources(chunks, token_cap) == DedupFormat(chunks, {}, token_cap)

\* Source lines for the chunks that deduplication keeps only.
RECURSIVE format_sources_after_dedup(_)
format_sources_after_dedup(chunks) ==
    IF chunks = << >> THEN << >>
    ELSE LET last == chunks[Len(chunks)]
             earlier == SubSeq(chunks, 1, Len(chunks) - 1)
             line == [page |-> last.page_number, chunk |-> last.chunk_index]
         IN  IF \E i \in 1..Len(earlier) :
                   PyPrefix(earlier[i].content, DedupPrefixLen)
                      = PyPrefix(last.content, DedupPrefixLen)
             THEN format_sources_after_dedup(earlier)
             ELSE Append(format_sources_after_dedup(earlier), line)

\* formatted_sources: the "- Page N, Chunk I" lines that "\n".join concatenates.
format_sources(chunks) ==
    [i \in 1..Len(chunks) |-> [page |-> chunks[i].page_number, chunk |-> chunks[i].chunk_index]]

\* A max_tokens_per_source that is not a number makes "len(content) > max_chars"
\* raise TypeError for the first chunk formatted.
FormatRaises(chunks, mts) == mts.kind = "str" /\ chunks # << >>

NoResult == [pending |-> TRUE]

ToolSuccess(chunks, mts) ==
    [raised |-> FALSE,
     result |-> [similar_chunks |-> chunks,
                 formatted_results |-> deduplicate_and_format_sources(chunks, TokenCap(mts)),
                 formatted_sources |-> format_sources(chunks)]]

\* Mutant: the except branch logs and re-raises.
ToolOnException_reraises(exc) == [raised |-> TRUE, result |-> NoResult]

\* "except Exception as exc:" of VectorSearchTool.search
ToolOnException(exc) ==
    [raised |-> FALSE,
     result |-> [similar_chunks |-> << >>,
                 formatted_results |-> << >>,
                 formatted_sources |-> << >>,
                 error |-> exc]]

(***************************************************************************)
(* Actions of one VectorSearchTool.search call                             *)
(***************************************************************************)
TopKInputs == {5, 15}
ThresholdInputs == {2, 3, 6}
MaxTokensInputs ==
    {[kind |-> "none", n |-> 0], [kind |-> "int", n |-> 0], [kind |-> "int", n |-> 1],
     [kind |-> "int", n |-> 30], [kind |-> "str", n |-> 0]}

NoArgs == [document_id |-> None, top_k |-> 0, similarity_threshold |-> 0,
           max_tokens_per_source |-> [kind |-> "none", n |-> 0]]
NoFrame == [top_k |-> 0, similarity_threshold |-> 0]

InitSearch ==
    /\ use_relevance_scores \in BOOLEAN
    /\ namespace_supported \in BOOLEAN
    /\ tool_pc = "idle"
    /\ tool_args = NoArgs
    /\ es_frame = NoFrame
    /\ es_calls = << >>
    /\ similar_chunks = << >>
    /\ tool_failure = "none"
    /\ tool_raised = FALSE
    /\ tool_result = NoResult

\* search() is entered and awaits embedding_service.search_similar_chunks(...)
ToolSearch ==
    /\ tool_pc = "idle"
    /\ \E d \in DocIds \cup {None}, k \in TopKInputs, t \in ThresholdInputs,
          m \in MaxTokensInputs :
          /\ tool_args' = [document_id |-> d, top_k |-> k, similarity_threshold |-> t,
                           max_tokens_per_source |-> m]
          /\ es_frame' = [top_k |-> k, similarity_threshold |-> t]
    /\ tool_pc' = "searching"
    /\ UNCHANGED << use_relevance_scores, namespace_supported, es_calls, similar_chunks,
                    tool_failure, tool_raised, tool_result >>
    /\ UNCHANGED not_search

\* One invocation of search_similar_chunks: the vector query or a database
\* lookup raises (re-raised by "except Exception as e: raise e"), or the hits
\* are processed and the invocation either recurses with relaxed arguments or
\* returns its chunks.
SearchSimilarChunks ==
    /\ tool_pc = "searching"
    /\ Len(es_calls) < MaxSearchDepth
    /\ \/ /\ es_calls' = Append(es_calls, [top_k |-> es_frame.top_k,
                                           similarity_threshold |-> es_frame.similarity_threshold,
                                           found |-> 0, outcome |-> "raised"])
          /\ tool_pc' = "search_raised"
          /\ UNCHANGED << es_frame, similar_chunks >>
       \/ \E hits \in StoreHits(SearchScope(tool_args.document_id), es_frame.top_k) :
             LET chunks == ProcessResults(hits, es_frame.similarity_threshold)
                 relax == ShouldRelax(chunks, es_frame.similarity_threshold)
             IN  /\ es_calls' = Append(es_calls,
                        [top_k |-> es_frame.top_k,
                         similarity_threshold |-> es_frame.similarity_threshold,
                         found |-> Len(chunks),
                         outcome |-> IF relax THEN "relaxed" ELSE "returned"])
                 /\ IF relax
                    THEN /\ es_frame' = RelaxedFrame(es_frame)
                         /\ UNCHANGED << tool_pc, similar_chunks >>
                    ELSE /\ tool_pc' = "searched"
                         /\ similar_chunks' = chunks
                         /\ UNCHANGED es_frame
    /\ UNCHANGED << use_relevance_scores, namespace_supported, tool_args, tool_failure,
                    tool_raised, tool_result >>
    /\ UNCHANGED not_search

\* The rest of search(): format and return, or the except branch.
ToolReturn ==
    /\ tool_pc \in {"searched", "search_raised"}
    /\ LET failure == IF tool_pc = "search_raised" THEN "search"
                      ELSE IF FormatRaises(similar_chunks, tool_args.max_tokens_per_source)
                           THEN "format" ELSE "none"
           out == IF failure = "none"
                  THEN ToolSuccess(similar_chunks, tool_args.max_tokens_per_source)
                  ELSE ToolOnException(failure)
       IN  /\ tool_failure' = failure
           /\ tool_raised' = out.raised
           /\ tool_result' = out.result
    /\ tool_pc' = "returned"
    /\ UNCHANGED << use_relevance_scores, namespace_supported, tool_args, es_frame,
                    es_calls, similar_chunks >>
    /\ UNCHANGED not_search

NextSearch == ToolSearch \/ SearchSimilarChunks \/ ToolReturn


(***************************************************************************)
(* get_db_session: the scope every database access runs in                *)
(***************************************************************************)

\* A session scope that forgets the rollback: what the body assigned stays.
get_db_session_without_rollback(body, commit_ok) ==
    [durable |-> body.pending,
     events |-> << "open" >>
                \o (IF body.raises THEN << "raise" >> ELSE << "commit" >>)
                \o << "close" >>,
     raised |-> body.raises \/ ~commit_ok]

\* A session scope without the "finally": a scope that raises is not closed.
get_db_session_without_finally(body, commit_ok) ==
    LET completes == ~body.raises /\ commit_ok
    IN  [durable |-> IF completes THEN body.pending ELSE body.committed,
         events |-> << "open" >>
                    \o (IF body.raises THEN << "rollback", "raise" >>
                        ELSE IF commit_ok THEN << "commit", "close" >>
                        ELSE << "commit", "rollback", "raise" >>),
         raised |-> ~completes]

\* get_db_session: "yield db; db.commit()", "except Exception: db.rollback();
\* raise", "finally: db.close()".  body.pending is the row as the session
\* holds it when the body ends, body.committed the row as the body's own
\* commits left it in the database.
get_db_session(body, commit_ok) ==
    LET completes == ~body.raises /\ commit_ok
    IN  [durable |-> IF completes THEN body.pending ELSE body.committed,
         events |-> << "open" >>
                    \o (IF body.raises THEN << "rollback", "raise" >>
                        ELSE IF commit_ok THEN << "commit" >>
                        ELSE << "commit", "rollback", "raise" >>)
                    \o << "close" >>,
         raised |-> ~completes]

(***************************************************************************)
(* ChatAgentWithTools: ChatState, the workflow graph and chat()            *)
(***************************************************************************)
MaxSupersteps == 12      \* workflow nodes the graph engine runs before it gives up

HistoryLimit == 10       \* ".limit(10)" of _load_chat_context

HumanMessage(content) ==
    [type |-> "human", content |-> content, tool_calls |-> << >>, tool_call_id |-> 0]
AIMessage(content, calls) ==
    [type |-> "ai", content |-> content, tool_calls |-> calls, tool_call_id |-> 0]
ToolMessage(content, id) ==
    [type |-> "tool", content |-> content, tool_calls |-> << >>, tool_call_id |-> id]

\* What the model can ask for in one response: the tool name and, per call,
\* how executing it goes ("hit": chunks found, "miss": none found, "raises":
\* tool_to_run.ainvoke(tool_args) raises, e.g. on arguments failing the schema).
ToolCallShapes ==
    { << >>,
      << [name |-> "search_document", run |-> "hit"] >>,
      << [name |-> "search_document", run |-> "hit"],
         [name |-> "search_document", run |-> "miss"] >>,
      << [name |-> "search_document", run |-> "hit"],
         [name |-> "search_document", run |-> "raises"] >>,
      << [name |-> "other_tool", run |-> "hit"],
         [name |-> "search_document", run |-> "hit"] >> }

\* tool_call ids are unique within a turn.
WithIds(shape, run) ==
    [i \in 1..Len(shape) |-> [id |-> 10 * run + i, name |-> shape[i].name, run |-> shape[i].run]]

\* Mutant: routes on the presence of any message.
should_use_tools_any_message(messages) ==
    IF messages # << >> THEN "tools" ELSE "save"

\* _should_use_tools
should_use_tools(messages) ==
    IF messages # << >> /\ messages[Len(messages)].type = "ai"
       /\ messages[Len(messages)].tool_calls # << >>
    THEN "tools" ELSE "save"

\* The conditional edge of the graph: {"tools": "tools", "save": "save_interaction"}
AgentEdge(messages) ==
    IF should_use_tools(messages) = "tools" THEN "tools" ELSE "save_interaction"

\* reversed(seq)
Reverse(seq) == [i \in 1..Len(seq) |-> seq[Len(seq) + 1 - i]]

\* filter(ChatMessage.session_id == state.session_id) on rows kept oldest first
RowsOfSession(rows, sid) == SelectSeq(rows, LAMBDA m : m.session_id = sid)

\* Mutant: the rows are appended in the order the query returned them.
LoadHistory_newest_first(rows, sid) ==
    LET recent_messages == PyPrefix(Reverse(RowsOfSession(rows, sid)), HistoryLimit)
    IN  [i \in 1..Len(recent_messages) |->
            [role |-> recent_messages[i].role, content |-> recent_messages[i].content]]

\* _load_chat_context: order_by(created_at.desc()).limit(10), then
\* "for msg in reversed(recent_messages)".
LoadHistory(rows, sid) ==
    LET recent_messages == PyPrefix(Reverse(RowsOfSession(rows, sid)), HistoryLimit)
        oldest_first == Reverse(recent_messages)
    IN  [i \in 1..Len(oldest_first) |->
            [role |-> oldest_first[i].role, content |-> oldest_first[i].content]]

\* int(len(text.split()) * 1.3)
Words(content) ==
    CASE content = "" -> 0
      [] content = "question" -> 1
      [] content = "answer" -> 1
      [] content = "fallback" -> 8          \* "I apologize, but I couldn't generate a response."
      [] OTHER -> 9                         \* apology texts carrying str(e)
estimate_tokens(content) == (Words(content) * 13) \div 10


SessionInputs == {None, "s1", "s3", "s9"}  \* "s9": no ChatSession row has this id
ChatDocInputs == {None, "d1"}
NewSessionId == "s2"          \* the id db.flush() assigns to a new ChatSession

\* The ChatMessage rows earlier turns of a session left behind, oldest first:
\* user and assistant rows in turn, each with its own content.
StoredRows(sid, n) ==
    [i \in 1..n |-> [session_id |-> sid,
                     role |-> IF i % 2 = 1 THEN "user" ELSE "assistant",
                     content |-> sid \o "-m" \o ToString(i)]]

NoChatResult == [pending |-> TRUE]

InitChat ==
    /\ final_state_is_dict = FALSE
    /\ chat_pc = "idle"
    /\ chat_session_arg = None
    /\ chat_session_id = None
    /\ chat_document_id = None
    /\ chat_messages = << >>
    /\ chat_history = << >>
    /\ chat_sources_used = << >>
    /\ chat_tool_calls = << >>
    /\ chat_current_step = "start"
    /\ chat_errors = << >>
    /\ chat_supersteps = 0
    /\ agent_runs = 0
    /\ tools_runs = 0
    /\ save_runs = 0
    /\ chat_failures = {}
    /\ chat_result = NoChatResult
    /\ db_sessions = {"s1", "s3"}
    /\ db_messages = StoredRows("s3", 12) \o StoredRows("s1", 2)
    /\ db_last_activity = [x \in {"s1", "s3", NewSessionId} |-> 0]

\* Mutant: the handler of chat() logs and re-raises.
ChatOnException_reraises(e, sid) == [outcome |-> "raised", result |-> NoChatResult]

\* A handler that reports no session, whatever the local session_id holds.
ChatOnException_without_session(e, sid) ==
    [outcome |-> "returned",
     result |-> [message |-> "error_apology",
                 session_id |-> None,
                 sources_used |-> << >>,
                 tool_calls |-> << >>,
                 response_time |-> 0,
                 error |-> e]]

\* "except Exception as e:" of chat(); sources_used None is the empty sequence.
ChatOnException(e, sid) ==
    [outcome |-> "returned",
     result |-> [message |-> "error_apology",
                 session_id |-> sid,
                 sources_used |-> << >>,
                 tool_calls |-> << >>,
                 response_time |-> 0,
                 error |-> e]]

\* chat() up to "await self.workflow.ainvoke(initial_state)": the session is
\* created when none was passed (the database may fail), the state is built.
ChatStart ==
    /\ chat_pc = "idle"
    /\ \E sid \in SessionInputs, doc \in ChatDocInputs, created \in BOOLEAN :
          /\ chat_session_arg' = sid
          /\ chat_document_id' = doc
          /\ IF sid = None /\ ~created
             THEN LET out == ChatOnException("session", sid)
                  IN  /\ chat_pc' = out.outcome
                      /\ chat_result' = out.result
                      /\ chat_failures' = chat_failures \cup {"session"}
                      /\ UNCHANGED << chat_session_id, chat_messages, db_sessions >>
             ELSE /\ created = (sid = None)
                  /\ chat_session_id' = IF sid = None THEN NewSessionId ELSE sid
                  /\ db_sessions' = IF sid = None THEN db_sessions \cup {NewSessionId}
                                    ELSE db_sessions
                  /\ chat_messages' = << HumanMessage("question") >>
                  /\ chat_pc' = "load_context"
                  /\ UNCHANGED << chat_result, chat_failures >>
    /\ UNCHANGED << final_state_is_dict, chat_history, chat_sources_used, chat_tool_calls,
                    chat_current_step, chat_errors, chat_supersteps, agent_runs,
                    tools_runs, save_runs, db_messages, db_last_activity >>
    /\ UNCHANGED not_chat

\* _load_chat_context, then the edge load_context -> agent
LoadChatContext ==
    /\ chat_pc = "load_context"
    /\ chat_supersteps < MaxSupersteps
    /\ \/ /\ chat_history' = LoadHistory(db_messages, chat_session_id)
          /\ chat_current_step' = "context_loaded"
          /\ UNCHANGED << chat_errors, chat_failures >>
       \/ /\ chat_errors' = Append(chat_errors, "Context loading error")
          /\ chat_failures' = chat_failures \cup {"load_context"}
          /\ UNCHANGED << chat_history, chat_current_step >>
    /\ chat_pc' = "agent"
    /\ chat_supersteps' = chat_supersteps + 1
    /\ UNCHANGED << final_state_is_dict, chat_session_arg, chat_session_id,
                    chat_document_id, chat_messages, chat_sources_used, chat_tool_calls,
                    agent_runs, tools_runs, save_runs, chat_result, db_sessions,
                    db_messages, db_last_activity >>
    /\ UNCHANGED not_chat

\* _run_agent, then the conditional edge.  The tool object configured here is
\* a fresh one from get_tools() that nothing calls, so sources_storage is
\* empty and state.sources_used is left alone.
RunAgent ==
    /\ chat_pc = "agent"
    /\ chat_supersteps < MaxSupersteps
    /\ \/ \E shape \in ToolCallShapes, content \in {"answer", ""} :
             /\ shape # << >> => content = ""
             /\ chat_messages' = Append(chat_messages,
                                        AIMessage(content, WithIds(shape, agent_runs + 1)))
             /\ chat_tool_calls' = chat_tool_calls \o [i \in 1..Len(shape) |-> shape[i].name]
             /\ chat_current_step' = "agent_complete"
             /\ UNCHANGED << chat_errors, chat_failures >>
       \/ /\ chat_errors' = Append(chat_errors, "Agent error")
          /\ chat_failures' = chat_failures \cup {"agent"}
          /\ chat_messages' = Append(chat_messages, AIMessage("agent_apology", << >>))
          /\ UNCHANGED << chat_tool_calls, chat_current_step >>
    /\ chat_pc' = AgentEdge(chat_messages')
    /\ agent_runs' = agent_runs + 1
    /\ chat_supersteps' = chat_supersteps + 1
    /\ UNCHANGED << final_state_is_dict, chat_session_arg, chat_session_id,
                    chat_document_id, chat_history, chat_sources_used, tools_runs,
                    save_runs, chat_result, db_sessions, db_messages, db_last_activity >>
    /\ UNCHANGED not_chat


\* What one executed search_document call leaves behind: the ToolMessage with
\* json.dumps(result) and the chunks handed to _store_sources.
ToolResultContent(call) == IF call.run = "hit" THEN "chunk_count:1" ELSE "chunk_count:0"
ToolSources(call, document_id) ==
    IF call.run = "hit" THEN << [tool_call_id |-> call.id, document_id |-> document_id] >>
    ELSE << >>

\* A loop that assigns the chunks of a call to the sources and does not
\* extend them.
RECURSIVE ToolsLoop_assigns_sources(_, _, _)
ToolsLoop_assigns_sources(calls, acc, document_id) ==
    IF calls = << >> THEN acc
    ELSE LET tool_call == Head(calls)
         IN  IF tool_call.name # "search_document"
             THEN ToolsLoop_assigns_sources(Tail(calls), acc, document_id)
             ELSE IF tool_call.run = "raises"
             THEN [acc EXCEPT !.raised = TRUE]
             ELSE ToolsLoop_assigns_sources(
                     Tail(calls),
                     [acc EXCEPT
                        !.messages = Append(@, ToolMessage(ToolResultContent(tool_call),
                                                           tool_call.id)),
                        !.sources = ToolSources(tool_call, document_id)],
                     document_id)

\* The "for tool_call in last_message.tool_calls" loop of _run_tools: a call
\* whose name matches no tool is skipped, a call whose execution raises ends
\* the loop in the except branch.
RECURSIVE ToolsLoop(_, _, _)
ToolsLoop(calls, acc, document_id) ==
    IF calls = << >> THEN acc
    ELSE LET tool_call == Head(calls)
         IN  IF tool_call.name # "search_document"
             THEN ToolsLoop(Tail(calls), acc, document_id)
             ELSE IF tool_call.run = "raises"
             THEN [acc EXCEPT !.raised = TRUE]
             ELSE ToolsLoop(Tail(calls),
                            [acc EXCEPT
                               !.messages = Append(@, ToolMessage(ToolResultContent(tool_call),
                                                                  tool_call.id)),
                               !.sources = @ \o ToolSources(tool_call, document_id)],
                            document_id)

\* _run_tools, then the edge tools -> agent
RunTools ==
    /\ chat_pc = "tools"
    /\ chat_supersteps < MaxSupersteps
    /\ LET last_message == chat_messages[Len(chat_messages)]
           out == ToolsLoop(last_message.tool_calls,
                            [messages |-> chat_messages, sources |-> chat_sources_used,
                             raised |-> FALSE],
                            chat_document_id)
       IN  IF last_message.tool_calls = << >>
           THEN UNCHANGED << chat_messages, chat_sources_used, chat_current_step,
                             chat_errors, chat_failures >>
           ELSE /\ chat_messages' = out.messages
                /\ chat_sources_used' = out.sources
                /\ IF out.raised
                   THEN /\ chat_errors' = Append(chat_errors, "Tool execution error")
                        /\ chat_failures' = chat_failures \cup {"tools"}
                        /\ UNCHANGED chat_current_step
                   ELSE /\ chat_current_step' = "tools_complete"
                        /\ UNCHANGED << chat_errors, chat_failures >>
    /\ chat_pc' = "agent"
    /\ tools_runs' = tools_runs + 1
    /\ chat_supersteps' = chat_supersteps + 1
    /\ UNCHANGED << final_state_is_dict, chat_session_arg, chat_session_id,
                    chat_document_id, chat_history, chat_tool_calls, agent_runs,
                    save_runs, chat_result, db_sessions, db_messages, db_last_activity >>
    /\ UNCHANGED not_chat

\* "for msg in state.messages" of _save_chat_interaction: the first human
\* content and the last AI content.
RECURSIVE FirstHumanContent(_)
FirstHumanContent(messages) ==
    IF messages = << >> THEN ""
    ELSE IF Head(messages).type = "human" /\ Head(messages).content # ""
    THEN Head(messages).content
    ELSE FirstHumanContent(Tail(messages))

\* Mutant: the first AI message of the turn is taken for the final one.
RECURSIVE LastAIContent_takes_first(_)
LastAIContent_takes_first(messages) ==
    IF messages = << >> THEN ""
    ELSE IF Head(messages).type = "ai" THEN Head(messages).content
    ELSE LastAIContent_takes_first(Tail(messages))

RECURSIVE LastAIContent(_)
LastAIContent(messages) ==
    IF messages = << >> THEN ""
    ELSE IF messages[Len(messages)].type = "ai" THEN messages[Len(messages)].content
    ELSE LastAIContent(SubSeq(messages, 1, Len(messages) - 1))

\* The body of the scope of _save_chat_interaction: db.add(user_message),
\* building and adding assistant_message, the ChatSession query and the
\* last_activity write.  Nothing is flushed before the scope's commit
\* (autoflush=False), so the body leaves the database as it found it.
SaveOutcomes == {"ok", "assistant_raises", "query_raises", "commit_raises"}
SaveRows(sid, user_content, assistant_content) ==
    << [session_id |-> sid, role |-> "user", content |-> user_content],
       [session_id |-> sid, role |-> "assistant", content |-> assistant_content] >>

\* A body whose session writes each added row through at once.
SaveBody_writes_through(outcome, stored, sid, user_content, assistant_content) ==
    LET rows == SaveRows(sid, user_content, assistant_content)
        writes == user_content # "" /\ assistant_content # ""
        added == IF ~writes THEN << >>
                 ELSE IF outcome = "assistant_raises" THEN << rows[1] >> ELSE rows
        touched == writes /\ outcome \in {"ok", "commit_raises"} /\ sid \in db_sessions
        pending == [messages |-> stored.messages \o added,
                    last_activity |-> IF touched
                                      THEN [stored.last_activity EXCEPT ![sid] = @ + 1]
                                      ELSE stored.last_activity]
    IN  [pending |-> pending, committed |-> pending,
         raises |-> outcome \in {"assistant_raises", "query_raises"}]

SaveBody(outcome, stored, sid, user_content, assistant_content) ==
    LET rows == SaveRows(sid, user_content, assistant_content)
        writes == user_content # "" /\ assistant_content # ""
        added == IF ~writes THEN << >>
                 ELSE IF outcome = "assistant_raises" THEN << rows[1] >> ELSE rows
        touched == writes /\ outcome \in {"ok", "commit_raises"} /\ sid \in db_sessions
    IN  [pending |-> [messages |-> stored.messages \o added,
                      last_activity |-> IF touched
                                        THEN [stored.last_activity EXCEPT ![sid] = @ + 1]
                                        ELSE stored.last_activity],
         committed |-> stored,
         raises |-> outcome \in {"assistant_raises", "query_raises"}]

\* _save_chat_interaction, then the edge save_interaction -> END.  The rows
\* and the last_activity write are one get_db_session scope: committed
\* together, or rolled back together when the scope raises.
SaveChatInteraction ==
    /\ chat_pc = "save_interaction"
    /\ chat_supersteps < MaxSupersteps
    /\ LET user_content == FirstHumanContent(chat_messages)
           assistant_content == LastAIContent(chat_messages)
           writes == user_content # "" /\ assistant_content # ""
       IN  IF chat_session_id # None /\ chat_messages # << >>
           THEN \E outcome \in SaveOutcomes :
                   LET stored == [messages |-> db_messages,
                                  last_activity |-> db_last_activity]
                       scope == get_db_session(
                                   SaveBody(outcome, stored, chat_session_id,
                                            user_content, assistant_content),
                                   outcome # "commit_raises")
                   IN  /\ db_messages' = scope.durable.messages
                       /\ db_last_activity' = scope.durable.last_activity
                       /\ IF scope.raised
                          THEN /\ chat_errors' = Append(chat_errors,
                                                        "Save interaction error")
                               /\ chat_failures' = chat_failures \cup {"save"}
                               /\ UNCHANGED chat_current_step
                          ELSE /\ chat_current_step' = "interaction_saved"
                               /\ UNCHANGED << chat_errors, chat_failures >>
           ELSE /\ chat_current_step' = "interaction_saved"
                /\ UNCHANGED << chat_errors, chat_failures, db_messages,
                                db_last_activity >>
    /\ chat_pc' = "end"
    /\ save_runs' = save_runs + 1
    /\ chat_supersteps' = chat_supersteps + 1
    /\ UNCHANGED << final_state_is_dict, chat_session_arg, chat_session_id,
                    chat_document_id, chat_messages, chat_history, chat_sources_used,
                    chat_tool_calls, agent_runs, tools_runs, chat_result, db_sessions >>
    /\ UNCHANGED not_chat

\* The graph engine stops a run that has used up its step budget and raises
\* into chat(), whose handler answers.
WorkflowAborts ==
    /\ chat_pc \in {"load_context", "agent", "tools", "save_interaction"}
    /\ chat_supersteps >= MaxSupersteps
    /\ LET out == ChatOnException("workflow", chat_session_id)
       IN  /\ chat_pc' = out.outcome
           /\ chat_result' = out.result
    /\ chat_failures' = chat_failures \cup {"workflow"}
    /\ UNCHANGED << final_state_is_dict, chat_session_arg, chat_session_id,
                    chat_document_id, chat_messages, chat_history, chat_sources_used,
                    chat_tool_calls, chat_current_step, chat_errors, chat_supersteps,
                    agent_runs, tools_runs, save_runs, db_sessions, db_messages,
                    db_last_activity >>
    /\ UNCHANGED not_chat

\* 'preview': source.get('content', '')[:200] + "..." per source
FormatChatSources(sources) == sources

\* A return that answers with the stock sentence whenever the turn has errors.
ChatSuccess_stock_answer_on_errors(messages, sid, sources, tool_calls, errors) ==
    LET last == LastAIContent(messages)
        assistant_response == IF last = "" \/ errors # << >> THEN "fallback" ELSE last
    IN  [outcome |-> "returned",
         result |-> [message |-> assistant_response,
                     session_id |-> sid,
                     sources_used |-> FormatChatSources(sources),
                     tool_calls |-> tool_calls,
                     response_time |-> 1,
                     token_count |-> estimate_tokens(assistant_response),
                     errors |-> errors]]

\* The success return of chat(); None for sources_used and errors is the
\* empty sequence.
ChatSuccess(messages, sid, sources, tool_calls, errors) ==
    LET last == LastAIContent(messages)
        assistant_response == IF last = "" THEN "fallback" ELSE last
    IN  [outcome |-> "returned",
         result |-> [message |-> assistant_response,
                     session_id |-> sid,
                     sources_used |-> FormatChatSources(sources),
                     tool_calls |-> tool_calls,
                     response_time |-> 1,
                     token_count |-> estimate_tokens(assistant_response),
                     errors |-> errors]]

\* chat() after ainvoke returned.  The engine hands back a ChatState or a
\* dict of its fields (conduct_research handles both); on a dict, reading
\* final_state.messages raises AttributeError into the handler.
ChatFinish ==
    /\ chat_pc = "end"
    /\ \E is_dict \in BOOLEAN :
          LET out == IF is_dict
                     THEN ChatOnException("final_state", chat_session_id)
                     ELSE ChatSuccess(chat_messages, chat_session_id, chat_sources_used,
                                      chat_tool_calls, chat_errors)
          IN  /\ final_state_is_dict' = is_dict
              /\ chat_pc' = out.outcome
              /\ chat_result' = out.result
              /\ chat_failures' = IF is_dict THEN chat_failures \cup {"final_state"}
                                  ELSE chat_failures
    /\ UNCHANGED << chat_session_arg, chat_session_id,
                    chat_document_id, chat_messages, chat_history, chat_sources_used,
                    chat_tool_calls, chat_current_step, chat_errors, chat_supersteps,
                    agent_runs, tools_runs, save_runs, db_sessions, db_messages,
                    db_last_activity >>
    /\ UNCHANGED not_chat

NextChat ==
    \/ ChatStart
    \/ LoadChatContext
    \/ RunAgent
    \/ RunTools
    \/ SaveChatInteraction
    \/ WorkflowAborts
    \/ ChatFinish

(***************************************************************************)
(* DeepResearchAgent: conduct_research and its six-node workflow           *)
(***************************************************************************)
MaxQuestions == 3        \* research questions one generation call yields at most
MaxSections == 2         \* main_sections one outline holds at most

ResearchNodes == {"analyze_topic", "generate_questions", "retrieve_information",
                  "create_outline", "generate_content", "finalize_research"}

\* workflow.add_edge(...): the graph is a straight line.
NextNode(node) ==
    CASE node = "analyze_topic" -> "generate_questions"
      [] node = "generate_questions" -> "retrieve_information"
      [] node = "retrieve_information" -> "create_outline"
      [] node = "create_outline" -> "generate_content"
      [] node = "generate_content" -> "finalize_research"
      [] node = "finalize_research" -> "end"

\* Document rows: the indexed documents; "d3" has no row.
DocumentRows == DocIds
ResearchDocInputs == {"d2", "d3"}
NewTaskId == "t1"             \* the id db.flush() assigns to the ResearchTask

\* Python dicts with string keys; d.update(e).
EmptyDict == [k \in {} |-> None]
DictUpdate(d, e) ==
    [k \in (DOMAIN d) \cup (DOMAIN e) |-> IF k \in DOMAIN e THEN e[k] ELSE d[k]]
DictGet(d, k, default) == IF k \in DOMAIN d THEN d[k] ELSE default

\* What one top-level search_similar_chunks call may return: the kept chunks
\* of the first attempt, or, when those are none and the threshold is above
\* 0.3, the kept chunks of the relaxed retry.
SearchResults(document_id, top_k, similarity_threshold) ==
    LET scope == SearchScope(document_id)
        frame == [top_k |-> top_k, similarity_threshold |-> similarity_threshold]
        first == {ProcessResults(h, similarity_threshold) : h \in StoreHits(scope, top_k)}
        retry == {ProcessResults(h, RelaxedFrame(frame).similarity_threshold) :
                     h \in StoreHits(scope, RelaxedFrame(frame).top_k)}
    IN  (first \ {<< >>})
        \cup (IF << >> \in first
              THEN (IF ShouldRelax(<< >>, similarity_threshold) THEN retry ELSE {<< >>})
              ELSE {})

SearchOutcomes(document_id, top_k, similarity_threshold) ==
    {[raised |-> TRUE, chunks |-> << >>]}
    \cup {[raised |-> FALSE, chunks |-> c] :
             c \in SearchResults(document_id, top_k, similarity_threshold)}

\* The research questions a generation call can yield.
QName(i) == "q" \o ToString(i)
QuestionLists == {[i \in 1..n |-> QName(i)] : n \in 0..MaxQuestions}

\* response.content of the question-generation call: a JSON list, another
\* JSON value, or text that is not JSON (lines, some holding a '?').
QuestionResponses ==
    {[kind |-> "list", items |-> qs] : qs \in QuestionLists}
    \cup {[kind |-> "scalar", items |-> << "q1" >>]}
    \cup {[kind |-> "text",
           items |-> << [line |-> "intro", has_qmark |-> FALSE],
                        [line |-> "q1", has_qmark |-> TRUE] >>]}

\* "questions = json.loads(response.content)" and its two fallbacks
ParseQuestions(response) ==
    CASE response.kind = "list" -> response.items
      [] response.kind = "scalar" -> << response.items[1] >>
      [] response.kind = "text" ->
            LET kept == SelectSeq(response.items, LAMBDA l : l.has_qmark)
            IN  [i \in 1..Len(kept) |-> kept[i].line]

NoResearchResult == [pending |-> TRUE]

InitResearch ==
    /\ research_pc = "idle"
    /\ r_document_id = None
    /\ r_task_id = None
    /\ r_questions = << >>
    /\ r_retrieved = << >>
    /\ r_outline = EmptyDict
    /\ r_sections = << >>
    /\ r_sources_used = << >>
    /\ r_current_step = "start"
    /\ r_errors = << >>
    /\ r_failures = {}
    /\ r_step_runs = [n \in ResearchNodes |-> 0]
    /\ r_search_calls = 0
    /\ r_llm_calls = 0
    /\ r_result = NoResearchResult
    /\ r_raised = None
    /\ db_task = None

\* conduct_research up to workflow.ainvoke: _create_research_task, then the
\* initial ResearchState.  When the insert fails nothing has been assigned to
\* task_id, so "if task_id:" in the except branch raises UnboundLocalError.
ResearchStart ==
    /\ research_pc = "idle"
    /\ \E document_id \in ResearchDocInputs, insert_ok \in BOOLEAN :
          /\ r_document_id' = document_id
          /\ IF insert_ok
             THEN /\ db_task' = [id |-> NewTaskId, document_id |-> document_id,
                                 status |-> "in_progress", error_message |-> None,
                                 completed |-> FALSE]
                  /\ r_task_id' = NewTaskId
                  /\ research_pc' = "analyze_topic"
                  /\ UNCHANGED << r_raised, r_failures >>
             ELSE /\ research_pc' = "raised"
                  /\ r_raised' = "UnboundLocalError"
                  /\ r_failures' = r_failures \cup {"create_task"}
                  /\ UNCHANGED << db_task, r_task_id >>
    /\ UNCHANGED << r_questions, r_retrieved, r_outline, r_sections, r_sources_used,
                    r_current_step, r_errors, r_step_runs, r_search_calls,
                    r_llm_calls, r_result >>
    /\ UNCHANGED not_research

\* What every node does besides its own work: count the execution and follow
\* the node's only edge.
NodeDone(node) ==
    /\ r_step_runs' = [r_step_runs EXCEPT ![node] = @ + 1]
    /\ research_pc' = NextNode(node)

\* _analyze_topic: the Document lookup, then one generation call.  A missing
\* row appends an error and returns; nothing stops the workflow.
AnalyzeTopic ==
    /\ research_pc = "analyze_topic"
    /\ \E lookup_ok \in BOOLEAN :
          IF ~lookup_ok
          THEN /\ r_errors' = Append(r_errors, "Topic analysis error")
               /\ r_failures' = r_failures \cup {"analyze_topic"}
               /\ UNCHANGED << r_outline, r_current_step, r_llm_calls >>
          ELSE IF r_document_id \notin DocumentRows
          THEN /\ r_errors' = Append(r_errors, "Document not found")
               /\ r_failures' = r_failures \cup {"document_not_found"}
               /\ UNCHANGED << r_outline, r_current_step, r_llm_calls >>
          ELSE \E response \in {"raises", "json", "text"} :
                  /\ r_llm_calls' = r_llm_calls + 1
                  /\ CASE response = "raises" ->
                            /\ r_errors' = Append(r_errors, "Topic analysis error")
                            /\ r_failures' = r_failures \cup {"analyze_topic"}
                            /\ UNCHANGED << r_outline, r_current_step >>
                       [] response = "json" ->
                            /\ r_outline' = DictUpdate(r_outline,
                                   [topic_analysis |-> "analysis",
                                    document_context |-> r_document_id])
                            /\ r_current_step' = "analyze_topic_complete"
                            /\ UNCHANGED << r_errors, r_failures >>
                       [] response = "text" ->
                            /\ r_outline' = DictUpdate(r_outline,
                                   [topic_analysis |-> "raw_response"])
                            /\ r_current_step' = "analyze_topic_complete"
                            /\ UNCHANGED << r_errors, r_failures >>
    /\ NodeDone("analyze_topic")
    /\ UNCHANGED << r_document_id, r_task_id, r_questions, r_retrieved, r_sections,
                    r_sources_used, r_search_calls, r_result, r_raised, db_task >>
    /\ UNCHANGED not_research

\* _generate_research_questions
GenerateQuestions ==
    /\ research_pc = "generate_questions"
    /\ r_llm_calls' = r_llm_calls + 1
    /\ \/ /\ r_errors' = Append(r_errors, "Question generation error")
          /\ r_failures' = r_failures \cup {"generate_questions"}
          /\ UNCHANGED << r_questions, r_current_step >>
       \/ \E response \in QuestionResponses :
             /\ r_questions' = ParseQuestions(response)
             /\ r_current_step' = "questions_generated"
             /\ UNCHANGED << r_errors, r_failures >>
    /\ NodeDone("generate_questions")
    /\ UNCHANGED << r_document_id, r_task_id, r_retrieved, r_outline, r_sections,
                    r_sources_used, r_search_calls, r_result, r_raised, db_task >>
    /\ UNCHANGED not_research

\* The entries _retrieve_information builds from one chunk.
InfoEntry(chunk, question, question_index) ==
    [question |-> question, question_index |-> question_index,
     content |-> chunk.content, similarity_score |-> chunk.similarity_score,
     chunk_id |-> chunk.chunk_id, page_number |-> chunk.page_number,
     chunk_index |-> chunk.chunk_index]
SourceEntry(chunk, question) ==
    [chunk_id |-> chunk.chunk_id, page_number |-> chunk.page_number,
     similarity_score |-> chunk.similarity_score, question |-> question]

InSeq(x, seq) == \E i \in 1..Len(seq) : seq[i] = x

\* "for chunk in similar_chunks": one info entry per chunk, one source entry
\* per chunk unless an equal entry is already there.
RECURSIVE AddChunks(_, _, _, _)
AddChunks(acc, chunks, question, question_index) ==
    IF chunks = << >> THEN acc
    ELSE LET chunk == Head(chunks)
             source_entry == SourceEntry(chunk, question)
         IN  AddChunks([acc EXCEPT
                           !.info = Append(@, InfoEntry(chunk, question, question_index)),
                           !.sources = IF InSeq(source_entry, @) THEN @
                                       ELSE Append(@, source_entry)],
                       Tail(chunks), question, question_index)

\* Mutant: the first search that raises ends the loop over the questions.
RECURSIVE QuestionLoop_stops_on_error(_, _, _, _)
QuestionLoop_stops_on_error(questions, i, outcomes, acc) ==
    IF i > Len(questions) THEN acc
    ELSE IF outcomes[i].raised THEN [acc EXCEPT !.calls = @ + 1]
    ELSE QuestionLoop_stops_on_error(questions, i + 1, outcomes,
             AddChunks([acc EXCEPT !.calls = @ + 1], outcomes[i].chunks,
                       questions[i], i - 1))

\* "for i, question in enumerate(state.research_questions)": one search per
\* question; a search that raises is logged and the loop continues.
RECURSIVE QuestionLoop(_, _, _, _)
QuestionLoop(questions, i, outcomes, acc) ==
    IF i > Len(questions) THEN acc
    ELSE QuestionLoop(questions, i + 1, outcomes,
                      IF outcomes[i].raised THEN [acc EXCEPT !.calls = @ + 1]
                      ELSE AddChunks([acc EXCEPT !.calls = @ + 1], outcomes[i].chunks,
                                     questions[i], i - 1))

\* The general topic search adds info entries only.
TopicInfo(outcome) ==
    IF outcome.raised THEN << >>
    ELSE [i \in 1..Len(outcome.chunks) |-> InfoEntry(outcome.chunks[i], "General topic", -1)]

\* _retrieve_information
RetrieveInformation ==
    /\ research_pc = "retrieve_information"
    /\ \E question_outcomes \in [1..Len(r_questions) -> SearchOutcomes(r_document_id, 5, 6)],
          topic_outcome \in SearchOutcomes(r_document_id, 8, 5) :
          LET found == QuestionLoop(r_questions, 1, question_outcomes,
                                    [info |-> << >>, sources |-> << >>, calls |-> 0])
          IN  /\ r_retrieved' = found.info \o TopicInfo(topic_outcome)
              /\ r_sources_used' = found.sources
              /\ r_search_calls' = r_search_calls + found.calls + 1
              /\ r_failures' = r_failures
                    \cup (IF \E i \in 1..Len(r_questions) : question_outcomes[i].raised
                          THEN {"question_search"} ELSE {})
                    \cup (IF topic_outcome.raised THEN {"topic_search"} ELSE {})
    /\ r_current_step' = "information_retrieved"
    /\ NodeDone("retrieve_information")
    /\ UNCHANGED << r_document_id, r_task_id, r_questions, r_outline, r_sections,
                    r_errors, r_llm_calls, r_result, r_raised, db_task >>
    /\ UNCHANGED not_research

\* Section titles an outline can carry; only the first occurs in the document.
SectionTitle(i) == IF i = 1 THEN PageContent(3) ELSE Rep(i, "z")
SectionLists == {[i \in 1..n |-> [section_title |-> SectionTitle(i)]] : n \in 0..MaxSections}

\* response.content of the outline call: a JSON object with main_sections, a
\* JSON object without, a JSON list, an object whose main_sections are not
\* objects, or text that is not JSON.
OutlineResponses ==
    {[kind |-> "sections", main_sections |-> ss] : ss \in SectionLists}
    \cup {[kind |-> k, main_sections |-> << >>] :
             k \in {"no_sections", "list", "bad_sections", "text"}}

\* _create_content_outline
CreateOutline ==
    /\ research_pc = "create_outline"
    /\ r_llm_calls' = r_llm_calls + 1
    /\ \/ /\ r_errors' = Append(r_errors, "Outline creation error")
          /\ r_failures' = r_failures \cup {"create_outline"}
          /\ UNCHANGED << r_outline, r_current_step >>
       \/ \E response \in OutlineResponses :
             /\ r_outline' =
                   IF response.kind = "text"
                   THEN DictUpdate(r_outline, [raw_outline |-> "content",
                                               parsing_error |-> "JSON parsing failed"])
                   ELSE DictUpdate(r_outline, [structured_outline |-> response,
                                               creation_timestamp |-> "now"])
             /\ r_current_step' = "outline_created"
             /\ UNCHANGED << r_errors, r_failures >>
    /\ NodeDone("create_outline")
    /\ UNCHANGED << r_document_id, r_task_id, r_questions, r_retrieved, r_sections,
                    r_sources_used, r_search_calls, r_result, r_raised, db_task >>
    /\ UNCHANGED not_research

\* "keyword in info_text"
IsSubstring(keyword, text) ==
    \E i \in 0..(Len(text) - Len(keyword)) : SubSeq(text, i + 1, i + Len(keyword)) = keyword

\* relevant_info of one section: the info entries holding the title's keyword,
\* the first five of them.
RelevantInfo(section_title, retrieved) ==
    PyPrefix(SelectSeq(retrieved, LAMBDA info : IsSubstring(section_title, info.content)), 5)

\* detailed_sections[section_title] after the section's generation call
SectionEntry(section, retrieved, generated) ==
    IF generated
    THEN [section_title |-> section.section_title, content |-> "generated",
          sources_used |-> Len(RelevantInfo(section.section_title, retrieved)),
          section_metadata |-> section]
    ELSE [section_title |-> section.section_title, content |-> "Error generating content",
          error |-> TRUE]

\* _generate_detailed_content.  An outline that is no JSON object, or whose
\* sections are no objects, fails outside the per-section handler.
GenerateContent ==
    /\ research_pc = "generate_content"
    /\ LET structured_outline ==
               DictGet(r_outline, "structured_outline",
                       [kind |-> "no_sections", main_sections |-> << >>])
           main_sections == structured_outline.main_sections
       IN  IF structured_outline.kind \in {"list", "bad_sections"}
           THEN /\ r_errors' = Append(r_errors, "Content generation error")
                /\ r_failures' = r_failures \cup {"generate_content"}
                /\ UNCHANGED << r_sections, r_current_step, r_llm_calls >>
           ELSE \E generated \in [1..Len(main_sections) -> BOOLEAN] :
                   /\ r_sections' = [i \in 1..Len(main_sections) |->
                                        SectionEntry(main_sections[i], r_retrieved, generated[i])]
                   /\ r_llm_calls' = r_llm_calls + Len(main_sections)
                   /\ r_current_step' = "content_generated"
                   /\ r_failures' = r_failures
                         \cup (IF \E i \in 1..Len(main_sections) : ~generated[i]
                               THEN {"section"} ELSE {})
                   /\ UNCHANGED r_errors
    /\ NodeDone("generate_content")
    /\ UNCHANGED << r_document_id, r_task_id, r_questions, r_retrieved, r_outline,
                    r_sources_used, r_search_calls, r_result, r_raised, db_task >>
    /\ UNCHANGED not_research

\* _calculate_quality_score
calculate_quality_score(questions, retrieved, sections, errors) ==
    LET high_similarity_count ==
            Len(SelectSeq(retrieved, LAMBDA info : info.similarity_score > 8))
        score == 5 + (IF Len(questions) >= 5 THEN 1 ELSE 0)
                   + (IF Len(retrieved) >= 10 THEN 1 ELSE 0)
                   + (IF high_similarity_count >= 5 THEN 1 ELSE 0)
                   + (IF Len(sections) >= 3 THEN 1 ELSE 0)
                   + (IF errors = << >> THEN 1 ELSE 0)
    IN  IF score > 10 THEN 10 ELSE score

\* _finalize_research
FinalizeResearch ==
    /\ research_pc = "finalize_research"
    /\ r_outline' = DictUpdate(r_outline,
          [research_completed_at |-> "now",
           total_sections_generated |-> Len(r_sections),
           total_sources_used |-> Len(r_sources_used),
           research_quality_score |->
               calculate_quality_score(r_questions, r_retrieved, r_sections, r_errors)])
    /\ r_current_step' = "completed"
    /\ NodeDone("finalize_research")
    /\ UNCHANGED << r_document_id, r_task_id, r_questions, r_retrieved, r_sections,
                    r_sources_used, r_errors, r_failures, r_search_calls, r_llm_calls,
                    r_result, r_raised, db_task >>
    /\ UNCHANGED not_research

\* start_research after conduct_research returned: the response is built from
\* result['task_id'], result['summary'] and result['sources']; a missing key
\* raises KeyError, which the route turns into a 500 response.
start_research(result) ==
    IF {"task_id", "summary", "sources"} \subseteq DOMAIN result
    THEN [status_code |-> 200, task_id |-> result.task_id]
    ELSE [status_code |-> 500, task_id |-> None]

\* Mutant: the status never reflects the errors.
ResearchStatus_always_completed(errors) == "completed"

\* "completed" if not errors else "failed"
ResearchStatus(errors) == IF errors = << >> THEN "completed" ELSE "failed"

\* An update that writes the results but leaves the status column alone.
UpdatedTask_keeps_status(task, status, errors) ==
    [task EXCEPT !.completed = TRUE,
                 !.error_message = IF errors # << >> THEN errors ELSE @]

\* _update_research_task on the row it finds
UpdatedTask(task, status, errors) ==
    [task EXCEPT !.status = status, !.completed = TRUE,
                 !.error_message = IF errors # << >> THEN errors ELSE @]

\* conduct_research after workflow.ainvoke: the final update and the return;
\* when the update raises, the except branch tries to mark the task failed
\* and raises.
ResearchFinish ==
    /\ research_pc = "end"
    /\ \E update_ok \in BOOLEAN, second_update_ok \in BOOLEAN :
          IF update_ok
          THEN /\ db_task' = UpdatedTask(db_task, ResearchStatus(r_errors), r_errors)
               /\ r_result' = [task_id |-> r_task_id,
                               document_id |-> r_document_id,
                               topic |-> "topic",
                               content_outline |-> r_outline,
                               detailed_sections |-> r_sections,
                               sources_used |-> r_sources_used,
                               research_questions |-> r_questions,
                               status |-> ResearchStatus(r_errors),
                               errors |-> r_errors]
               /\ research_pc' = "returned"
               /\ UNCHANGED << r_raised, r_failures >>
          ELSE /\ db_task' = IF second_update_ok
                             THEN UpdatedTask(db_task, "failed", << "update failed" >>)
                             ELSE db_task
               /\ research_pc' = "raised"
               /\ r_raised' = "update failed"
               /\ r_failures' = r_failures \cup {"update_task"}
                                  \cup (IF second_update_ok THEN {} ELSE {"mark_failed"})
               /\ UNCHANGED r_result
    /\ UNCHANGED << r_document_id, r_task_id, r_questions, r_retrieved, r_outline,
                    r_sections, r_sources_used, r_current_step, r_errors, r_step_runs,
                    r_search_calls, r_llm_calls >>
    /\ UNCHANGED not_research

NextResearch ==
    \/ ResearchStart
    \/ AnalyzeTopic
    \/ GenerateQuestions
    \/ RetrieveInformation
    \/ CreateOutline
    \/ GenerateContent
    \/ FinalizeResearch
    \/ ResearchFinish

(***************************************************************************)
(* MetadataExtractor: extract_metadata and its extraction stages           *)
(***************************************************************************)

\* Python values the extraction handles, by type.
PyNone == [t |-> "none"]
PyNum(v) == [t |-> "num", v |-> v]
PyStr(str) == [t |-> "str", v |-> str]
PyList(items) == [t |-> "list", v |-> items]

\* bool(value)
Truthy(value) ==
    CASE value.t = "none" -> FALSE
      [] value.t = "num" -> value.v # 0
      [] value.t = "str" -> value.v # ""
      [] value.t = "list" -> value.v # << >>

\* str.strip() and str.upper() on the strings of the model
str_strip(str) == IF str \in {" ", ""} THEN "" ELSE IF str = " saas " THEN "saas" ELSE str
str_upper(str) == IF str = "eur" THEN "EUR" ELSE str

\* The all-null structure written out at lines 202-208, 244-250, 537-543,
\* 546-552, 594-600, 610-616 and 1199-1205.
EmptyFinancialFacts ==
    [revenue |-> [current_year |-> PyNone, previous_year |-> PyNone,
                  currency |-> PyStr("USD"), period |-> PyStr("annual")],
     profit_loss |-> [net_income |-> PyNone, gross_profit |-> PyNone,
                      operating_profit |-> PyNone, currency |-> PyStr("USD")],
     cash_flow |-> [operating_cash_flow |-> PyNone, free_cash_flow |-> PyNone,
                    currency |-> PyStr("USD")],
     debt_equity |-> [total_debt |-> PyNone, equity |-> PyNone,
                      debt_to_equity_ratio |-> PyNone],
     other_metrics |-> [ebitda |-> PyNone, margin_percentage |-> PyNone,
                        growth_rate |-> PyNone]]

\* clean_currency_field
clean_currency_field(currency_value) ==
    IF currency_value.t = "none"
       \/ (currency_value.t = "str" /\ currency_value.v \in {"null", ""})
    THEN PyStr("USD")
    ELSE IF currency_value.t = "str" /\ str_strip(currency_value.v) # ""
    THEN PyStr(str_upper(str_strip(currency_value.v)))
    ELSE PyStr("USD")

\* clean_numeric_field; the strings of the model hold no number
clean_numeric_field(value) ==
    IF value.t = "none" \/ (value.t = "str" /\ value.v \in {"null", ""}) THEN PyNone
    ELSE IF value.t = "num" THEN value
    ELSE PyNone

\* dict.get(key) with its default None
PyGet(d, key) == IF key \in DOMAIN d THEN d[key] ELSE PyNone

clean_period(revenue) ==
    IF Truthy(PyGet(revenue, "period")) /\ PyGet(revenue, "period") # PyStr("null")
    THEN PyGet(revenue, "period") ELSE PyStr("annual")

\* One cleaned section: the numeric keys, then currency (and period) where
\* the section has them.
CleanSection(section, numeric_keys, has_currency, has_period) ==
    LET keys == numeric_keys \cup (IF has_currency THEN {"currency"} ELSE {})
                             \cup (IF has_period THEN {"period"} ELSE {})
    IN  [k \in keys |->
            IF k = "currency" THEN clean_currency_field(PyGet(section, "currency"))
            ELSE IF k = "period" THEN clean_period(section)
            ELSE clean_numeric_field(PyGet(section, k))]

FinancialSections == {"revenue", "profit_loss", "cash_flow", "debt_equity", "other_metrics"}

NumericKeys(section_name) ==
    CASE section_name = "revenue" -> {"current_year", "previous_year"}
      [] section_name = "profit_loss" -> {"net_income", "gross_profit", "operating_profit"}
      [] section_name = "cash_flow" -> {"operating_cash_flow", "free_cash_flow"}
      [] section_name = "debt_equity" -> {"total_debt", "equity", "debt_to_equity_ratio"}
      [] section_name = "other_metrics" -> {"ebitda", "margin_percentage", "growth_rate"}

\* Mutant: cleaning leaves out the period of the revenue section.
clean_financial_data_drops_period(data) ==
    [name \in (DOMAIN data) \cap FinancialSections |->
        CleanSection(data[name], NumericKeys(name),
                     name \in {"revenue", "profit_loss", "cash_flow"}, FALSE)]

\* _clean_financial_data: every section the data holds, rebuilt key by key.
clean_financial_data(data) ==
    [name \in (DOMAIN data) \cap FinancialSections |->
        CleanSection(data[name], NumericKeys(name),
                     name \in {"revenue", "profit_loss", "cash_flow"},
                     name = "revenue")]

\* Mutant: only the revenue section is looked at.
is_financial_data_empty_revenue_only(financial_data) ==
    \/ DOMAIN financial_data = {}
    \/ \A field_name \in DOMAIN financial_data["revenue"] :
          field_name \notin {"currency", "period"}
             => financial_data["revenue"][field_name] = PyNone

\* _is_financial_data_empty
is_financial_data_empty(financial_data) ==
    \/ DOMAIN financial_data = {}
    \/ \A category_name \in DOMAIN financial_data :
          \A field_name \in DOMAIN financial_data[category_name] :
             field_name \notin {"currency", "period"}
                => financial_data[category_name][field_name] = PyNone

\* response.choices[0].message.parsed.model_dump() of the financial call: the
\* schema defaults, a revenue figure in a lower-case currency, a zero growth
\* rate reported quarterly.
ParsedFinancialFacts ==
    {EmptyFinancialFacts,
     [EmptyFinancialFacts EXCEPT !.revenue.current_year = PyNum(100),
                                 !.revenue.currency = PyStr("eur")],
     [EmptyFinancialFacts EXCEPT !.other_metrics.growth_rate = PyNum(0),
                                 !.revenue.period = PyStr("quarterly")],
     [EmptyFinancialFacts EXCEPT !.profit_loss.net_income = PyNum(-5)]}

\* One completions.parse call: it raises, parses nothing, or parses a value.
FinancialResponses ==
    {[kind |-> k, parsed |-> EmptyFinancialFacts] : k \in {"raises", "no_parse"}}
    \cup {[kind |-> "parsed", parsed |-> p] : p \in ParsedFinancialFacts}

\* _extract_financial_facts_core
extract_financial_facts_core(response) ==
    IF response.kind = "parsed" THEN clean_financial_data(response.parsed)
    ELSE EmptyFinancialFacts

\* _extract_financial_facts_alternative: the keyword sections, then for a text
\* over 8000 characters its middle and its end; the first non-empty result
\* wins, else the all-null structure.
extract_financial_facts_alternative(text, responses) ==
    LET first == extract_financial_facts_core(responses[1])
        middle == extract_financial_facts_core(responses[2])
        end == extract_financial_facts_core(responses[3])
        keyword_call == IF text.fin_keywords THEN << 1 >> ELSE << >>
    IN  IF text.fin_keywords /\ ~is_financial_data_empty(first)
        THEN [facts |-> first, used |-> << 1 >>]
        ELSE IF ~text.long
        THEN [facts |-> EmptyFinancialFacts, used |-> keyword_call]
        ELSE IF ~is_financial_data_empty(middle)
        THEN [facts |-> middle, used |-> keyword_call \o << 2 >>]
        ELSE IF ~is_financial_data_empty(end)
        THEN [facts |-> end, used |-> keyword_call \o << 2, 3 >>]
        ELSE [facts |-> EmptyFinancialFacts, used |-> keyword_call \o << 2, 3 >>]

\* parse_amount of the first match of a heuristic pattern, None without match
RegexField(text, pattern_name) ==
    IF pattern_name \in DOMAIN text.matches THEN PyNum(text.matches[pattern_name])
    ELSE PyNone

\* _extract_financial_facts_regex
extract_financial_facts_regex(text) ==
    clean_financial_data(
        [EmptyFinancialFacts EXCEPT
            !.revenue.current_year = RegexField(text, "revenue_current"),
            !.profit_loss.net_income = RegexField(text, "net_income"),
            !.profit_loss.gross_profit = RegexField(text, "gross_profit"),
            !.profit_loss.operating_profit = RegexField(text, "operating_income"),
            !.cash_flow.operating_cash_flow = RegexField(text, "operating_cash_flow"),
            !.cash_flow.free_cash_flow = RegexField(text, "free_cash_flow"),
            !.debt_equity.total_debt = RegexField(text, "total_debt"),
            !.debt_equity.equity = RegexField(text, "stockholders_equity")])

\* "Merge regex facts into financial_facts where AI left None"
MergeRegexFacts(financial_facts, regex_facts) ==
    IF DOMAIN financial_facts # {} /\ DOMAIN regex_facts # {}
    THEN [section \in DOMAIN financial_facts |->
            IF section \in DOMAIN regex_facts
            THEN [k \in DOMAIN financial_facts[section] |->
                     IF /\ k \in DOMAIN regex_facts[section]
                        /\ financial_facts[section][k] \in {PyNone, PyStr("null"), PyStr("")}
                        /\ regex_facts[section][k] # PyNone
                     THEN regex_facts[section][k]
                     ELSE financial_facts[section][k]]
            ELSE financial_facts[section]]
    ELSE regex_facts

\* "if not financial_facts:" before the investment extraction
EnsureFinancialFacts(financial_facts) ==
    IF DOMAIN financial_facts = {} THEN EmptyFinancialFacts ELSE financial_facts

\* The empty investment structure written out at lines 654-661, 708-715,
\* 719-726, 866-873, 877-884 and 971-978.
EmptyInvestmentData ==
    [investment_highlights |-> PyList(<< >>),
     risk_factors |-> PyList(<< >>),
     market_opportunity |-> [market_size |-> PyNone, growth_rate |-> PyNone,
                             competitive_position |-> PyNone],
     business_model |-> [type |-> PyNone, revenue_streams |-> PyList(<< >>),
                         key_customers |-> PyList(<< >>)],
     strategic_initiatives |-> PyList(<< >>),
     exit_strategy |-> [timeline |-> PyNone, target_multiple |-> PyNone,
                        potential_buyers |-> PyList(<< >>)]]

\* "item and str(item).strip()"
Meaningful(item) == item # "" /\ str_strip(item) # ""

\* "[str(item).strip() for item in field_value if item and str(item).strip()]",
\* and [] for a value that is no list
clean_list(field_value) ==
    IF field_value.t = "list"
    THEN LET kept == SelectSeq(field_value.v, Meaningful)
         IN  PyList([i \in 1..Len(kept) |-> str_strip(kept[i])])
    ELSE PyList(<< >>)

\* "str(x).strip() if x else None"
clean_text(value) ==
    IF Truthy(value) THEN PyStr(str_strip(value.v)) ELSE PyNone

\* _clean_investment_data
clean_investment_data(raw_data) ==
    [investment_highlights |-> clean_list(PyGet(raw_data, "investment_highlights")),
     risk_factors |-> clean_list(PyGet(raw_data, "risk_factors")),
     strategic_initiatives |-> clean_list(PyGet(raw_data, "strategic_initiatives")),
     market_opportunity |->
        LET market_opp == raw_data.market_opportunity
        IN  [market_size |-> PyGet(market_opp, "market_size"),
             growth_rate |-> PyGet(market_opp, "growth_rate"),
             competitive_position |-> clean_text(PyGet(market_opp, "competitive_position"))],
     business_model |->
        LET business_model == raw_data.business_model
        IN  [type |-> clean_text(PyGet(business_model, "type")),
             revenue_streams |-> clean_list(PyGet(business_model, "revenue_streams")),
             key_customers |-> clean_list(PyGet(business_model, "key_customers"))],
     exit_strategy |->
        LET exit_strategy == raw_data.exit_strategy
        IN  [timeline |-> clean_text(PyGet(exit_strategy, "timeline")),
             target_multiple |-> PyGet(exit_strategy, "target_multiple"),
             potential_buyers |-> clean_list(PyGet(exit_strategy, "potential_buyers"))]]

\* "any(item and str(item).strip() for item in field_value)" on a list
AnyMeaningful(field_value) ==
    field_value.t = "list" /\ \E i \in 1..Len(field_value.v) : Meaningful(field_value.v[i])

\* "x and str(x).strip()"
MeaningfulText(value) == Truthy(value) /\ str_strip(value.v) # ""

\* _is_investment_data_empty
is_investment_data_empty(data) ==
    \/ DOMAIN data = {}
    \/ /\ \A field \in {"investment_highlights", "risk_factors", "strategic_initiatives"} :
             ~AnyMeaningful(PyGet(data, field))
       /\ LET market_opp == data.market_opportunity
          IN  /\ PyGet(market_opp, "market_size") = PyNone
              /\ PyGet(market_opp, "growth_rate") = PyNone
              /\ ~MeaningfulText(PyGet(market_opp, "competitive_position"))
       /\ LET business_model == data.business_model
          IN  /\ ~MeaningfulText(PyGet(business_model, "type"))
              /\ ~AnyMeaningful(PyGet(business_model, "revenue_streams"))
              /\ ~AnyMeaningful(PyGet(business_model, "key_customers"))
       /\ LET exit_strategy == data.exit_strategy
          IN  /\ ~MeaningfulText(PyGet(exit_strategy, "timeline"))
              /\ PyGet(exit_strategy, "target_multiple") = PyNone
              /\ ~AnyMeaningful(PyGet(exit_strategy, "potential_buyers"))

\* model_dump() of the investment call: a highlight next to a blank one, only a blank risk factor, a business model type with
\* spaces around it.
ParsedInvestmentData ==
    {[EmptyInvestmentData EXCEPT !.investment_highlights = PyList(<< " ", "growth" >>)],
     [EmptyInvestmentData EXCEPT !.risk_factors = PyList(<< " " >>)],
     [EmptyInvestmentData EXCEPT !.business_model.type = PyStr(" saas ")]}

InvestmentResponses ==
    {[kind |-> k, parsed |-> EmptyInvestmentData] : k \in {"raises", "no_parse"}}
    \cup {[kind |-> "parsed", parsed |-> p] : p \in ParsedInvestmentData}

\* _extract_investment_data_core
extract_investment_data_core(response) ==
    IF response.kind = "parsed" THEN clean_investment_data(response.parsed)
    ELSE EmptyInvestmentData

\* _extract_investment_data_alternative, on the responses 2..4 of the stage
extract_investment_data_alternative(text, responses) ==
    LET first == extract_investment_data_core(responses[2])
        middle == extract_investment_data_core(responses[3])
        end == extract_investment_data_core(responses[4])
        keyword_call == IF text.inv_keywords THEN << 2 >> ELSE << >>
    IN  IF text.inv_keywords /\ ~is_investment_data_empty(first)
        THEN [data |-> first, used |-> << 2 >>]
        ELSE IF ~text.long
        THEN [data |-> EmptyInvestmentData, used |-> keyword_call]
        ELSE IF ~is_investment_data_empty(middle)
        THEN [data |-> middle, used |-> keyword_call \o << 3 >>]
        ELSE IF ~is_investment_data_empty(end)
        THEN [data |-> end, used |-> keyword_call \o << 3, 4 >>]
        ELSE [data |-> EmptyInvestmentData, used |-> keyword_call \o << 3, 4 >>]

\* _extract_investment_data_ai
extract_investment_data_ai(text, responses) ==
    LET result == extract_investment_data_core(responses[1])
        alternative == extract_investment_data_alternative(text, responses)
    IN  IF ~is_investment_data_empty(result) THEN [data |-> result, used |-> << 1 >>]
        ELSE [data |-> alternative.data, used |-> << 1 >> \o alternative.used]

\* The responses to the calls a stage may make: any response where the text
\* lets the call happen, a placeholder where it cannot.
ResponsesIf(call_possible, responses) ==
    IF call_possible THEN responses ELSE {CHOOSE r \in responses : r.kind = "raises"}

\* The completions a stage requested: which extraction, and how each ended.
CallLog(purpose, responses, used) ==
    [i \in 1..Len(used) |-> [purpose |-> purpose, kind |-> responses[used[i]].kind]]

\* _extract_key_metrics_regex: one entry per category with a match
extract_key_metrics_regex(text) ==
    [category \in text.metric_categories |-> [count |-> 1]]

MaxEstimatedTables == 50      \* "min(table_score // 10, 50)"
MaxComplexity == 100          \* "min(10, ...)", in tenths
WordsPerMinute == 200         \* "word_count // 200"

Min(a, b) == IF a <= b THEN a ELSE b

\* Structure statistics without the two min() caps.
extract_document_structure_uncapped(text) ==
    [estimated_sections |-> text.headings,
     estimated_tables |-> text.table_indicators \div 10,
     bullet_points |-> text.bullets,
     estimated_reading_time_minutes |-> Max(1, text.words \div WordsPerMinute),
     complexity_score |->
         5 * text.headings + 3 * (text.table_indicators \div 10) + text.bullets
           + (text.words + 50) \div 100]

\* _extract_document_structure; complexity_score in tenths
extract_document_structure(text) ==
    LET estimated_tables == Min(text.table_indicators \div 10, MaxEstimatedTables)
    IN  [estimated_sections |-> text.headings,
         estimated_tables |-> estimated_tables,
         bullet_points |-> text.bullets,
         estimated_reading_time_minutes |-> Max(1, text.words \div WordsPerMinute),
         complexity_score |->
             Min(MaxComplexity,
                 5 * text.headings + 3 * estimated_tables + text.bullets
                   + (text.words + 50) \div 100)]

\* The texts the model extracts from: no chunk at all; a short text with a
\* revenue figure; a long text without any keyword; a long text with
\* financial keywords and two figures the patterns find.
NoMatches == [k \in {} |-> 0]
TextInputs ==
    {[long |-> FALSE, fin_keywords |-> FALSE, inv_keywords |-> FALSE,
      matches |-> NoMatches, metric_categories |-> {},
      headings |-> 0, table_indicators |-> 0, bullets |-> 0, words |-> 0],
     [long |-> FALSE, fin_keywords |-> TRUE, inv_keywords |-> TRUE,
      matches |-> [revenue_current |-> 100], metric_categories |-> {"revenue"},
      headings |-> 2, table_indicators |-> 25, bullets |-> 3, words |-> 900],
     [long |-> TRUE, fin_keywords |-> FALSE, inv_keywords |-> FALSE,
      matches |-> NoMatches, metric_categories |-> {},
      headings |-> 40, table_indicators |-> 700, bullets |-> 100, words |-> 9000],
     [long |-> TRUE, fin_keywords |-> TRUE, inv_keywords |-> FALSE,
      matches |-> [net_income |-> 5, stockholders_equity |-> 7],
      metric_categories |-> {"profit", "percentages"},
      headings |-> 3, table_indicators |-> 9, bullets |-> 0, words |-> 2000]}

ExtractDocInputs == {"d1", "d3"}
NoText == [long |-> FALSE, fin_keywords |-> FALSE, inv_keywords |-> FALSE,
           matches |-> NoMatches, metric_categories |-> {},
           headings |-> 0, table_indicators |-> 0, bullets |-> 0, words |-> 0]
NoMetadata == [pending |-> TRUE]
InitialDocument == [financial_facts |-> EmptyDict, investment_data |-> EmptyDict,
                    key_metrics |-> EmptyDict]

\* A load that reads the chunks without looking for the Document row.
LoadBody_without_row_check(document_id, outcome) ==
    [pending |-> db_document, committed |-> db_document,
     raises |-> outcome = "query_raises"]

\* The body of the scope that loads the document and its chunks.
LoadOutcomes == {"ok", "query_raises", "commit_raises"}
LoadBody(document_id, outcome) ==
    [pending |-> db_document, committed |-> db_document,
     raises |-> outcome = "query_raises" \/ document_id \notin DocumentRows]

\* The body of the scope that updates the document: the query, "if
\* document:", the three assignments (the last one after
\* _ensure_json_serializable) and "db.commit()".
PersistOutcomes == {"ok", "no_row", "query_raises", "serialize_raises", "commit_raises"}
PersistBody(outcome, financial_facts, investment_data, combined_metrics) ==
    LET two_assigned == [db_document EXCEPT !.financial_facts = financial_facts,
                                            !.investment_data = investment_data]
        all_assigned == [two_assigned EXCEPT !.key_metrics = combined_metrics]
    IN  [pending |-> CASE outcome \in {"no_row", "query_raises"} -> db_document
                       [] outcome = "serialize_raises" -> two_assigned
                       [] OTHER -> all_assigned,
         committed |-> IF outcome = "ok" THEN all_assigned ELSE db_document,
         raises |-> outcome \in {"query_raises", "serialize_raises", "commit_raises"}]

InitExtract ==
    /\ extract_pc = "idle"
    /\ x_document_id = None
    /\ x_text = NoText
    /\ x_financial_facts = EmptyDict
    /\ x_investment_data = EmptyDict
    /\ x_stages = << >>
    /\ x_calls = << >>
    /\ x_scopes = << >>
    /\ x_result = NoMetadata
    /\ x_raised = None
    /\ db_document = InitialDocument

\* Load: the Document row and its chunks.  A missing row is a ValueError,
\* which the outer handler logs and raises again.
ExtractLoad ==
    /\ extract_pc = "idle"
    /\ \E document_id \in ExtractDocInputs, text \in TextInputs, outcome \in LoadOutcomes :
          LET scope == get_db_session(LoadBody(document_id, outcome),
                                      outcome # "commit_raises")
          IN  /\ x_document_id' = document_id
              /\ x_scopes' = Append(x_scopes, [step |-> "load", events |-> scope.events,
                                               raised |-> scope.raised])
              /\ db_document' = scope.durable
              /\ IF ~scope.raised
                 THEN /\ x_text' = text
                      /\ extract_pc' = "financial_primary"
                      /\ UNCHANGED x_raised
                 ELSE /\ extract_pc' = "raised"
                      /\ x_raised' = IF outcome = "ok" THEN "Document not found"
                                     ELSE "database"
                      /\ UNCHANGED x_text
    /\ UNCHANGED << x_financial_facts, x_investment_data, x_stages, x_calls,
                    x_result >>
    /\ UNCHANGED not_extract

\* Stage 1: _extract_financial_facts_ai on the first 8000 characters
ExtractFinancialPrimary ==
    /\ extract_pc = "financial_primary"
    /\ \E response \in FinancialResponses :
          LET facts == extract_financial_facts_core(response)
          IN  /\ x_financial_facts' = facts
              /\ x_stages' = Append(x_stages, [stage |-> "primary", yielded |-> facts])
              /\ x_calls' = x_calls \o CallLog("financial", << response >>, << 1 >>)
              /\ extract_pc' = IF is_financial_data_empty(facts)
                               THEN "financial_alternative" ELSE "investment"
    /\ UNCHANGED << x_document_id, x_text, x_scopes, x_investment_data, x_result, x_raised,
                    db_document >>
    /\ UNCHANGED not_extract

\* Stage 2: "if self._is_financial_data_empty(financial_facts)" ->
\* _extract_financial_facts_alternative
ExtractFinancialAlternative ==
    /\ extract_pc = "financial_alternative"
    /\ \E responses \in
            {<< r1, r2, r3 >> : r1 \in ResponsesIf(x_text.fin_keywords, FinancialResponses),
                                r2 \in ResponsesIf(x_text.long, FinancialResponses),
                                r3 \in ResponsesIf(x_text.long, FinancialResponses)} :
          LET alternative == extract_financial_facts_alternative(x_text, responses)
              facts == IF ~is_financial_data_empty(alternative.facts)
                       THEN alternative.facts ELSE x_financial_facts
          IN  /\ x_financial_facts' = facts
              /\ x_stages' = Append(x_stages, [stage |-> "alternative",
                                               yielded |-> alternative.facts])
              /\ x_calls' = x_calls \o CallLog("financial", responses, alternative.used)
              /\ extract_pc' = IF is_financial_data_empty(facts)
                               THEN "financial_regex" ELSE "investment"
    /\ UNCHANGED << x_document_id, x_text, x_scopes, x_investment_data, x_result, x_raised,
                    db_document >>
    /\ UNCHANGED not_extract

\* Stage 3: still empty -> _extract_financial_facts_regex and the merge
ExtractFinancialRegex ==
    /\ extract_pc = "financial_regex"
    /\ LET regex_facts == extract_financial_facts_regex(x_text)
       IN  /\ x_financial_facts' = MergeRegexFacts(x_financial_facts, regex_facts)
           /\ x_stages' = Append(x_stages, [stage |-> "regex", yielded |-> regex_facts])
    /\ extract_pc' = "investment"
    /\ UNCHANGED << x_document_id, x_text, x_scopes, x_investment_data, x_calls, x_result,
                    x_raised, db_document >>
    /\ UNCHANGED not_extract

\* An extraction that gives up on the investment data when the financial
\* stages found no figure.
ExtractInvestment_only_after_figures ==
    /\ extract_pc = "investment"
    /\ x_financial_facts' = EnsureFinancialFacts(x_financial_facts)
    /\ \E responses \in
            {<< r1, r2, r3, r4 >> : r1 \in InvestmentResponses,
                                    r2 \in ResponsesIf(x_text.inv_keywords, InvestmentResponses),
                                    r3 \in ResponsesIf(x_text.long, InvestmentResponses),
                                    r4 \in ResponsesIf(x_text.long, InvestmentResponses)} :
          LET investment == extract_investment_data_ai(x_text, responses)
          IN  IF is_financial_data_empty(x_financial_facts)
              THEN UNCHANGED << x_investment_data, x_calls >>
              ELSE /\ x_investment_data' = investment.data
                   /\ x_calls' = x_calls \o CallLog("investment", responses, investment.used)
    /\ extract_pc' = "persist"
    /\ UNCHANGED << x_document_id, x_text, x_scopes, x_stages, x_result, x_raised,
                    db_document >>
    /\ UNCHANGED not_extract

\* "if not financial_facts: ..." and _extract_investment_data_ai
ExtractInvestment ==
    /\ extract_pc = "investment"
    /\ x_financial_facts' = EnsureFinancialFacts(x_financial_facts)
    /\ \E responses \in
            {<< r1, r2, r3, r4 >> : r1 \in InvestmentResponses,
                                    r2 \in ResponsesIf(x_text.inv_keywords, InvestmentResponses),
                                    r3 \in ResponsesIf(x_text.long, InvestmentResponses),
                                    r4 \in ResponsesIf(x_text.long, InvestmentResponses)} :
          LET investment == extract_investment_data_ai(x_text, responses)
          IN  /\ x_investment_data' = investment.data
              /\ x_calls' = x_calls \o CallLog("investment", responses, investment.used)
    /\ extract_pc' = "persist"
    /\ UNCHANGED << x_document_id, x_text, x_scopes, x_stages, x_result, x_raised, db_document >>
    /\ UNCHANGED not_extract

\* Key metrics, structure, the metadata dict, the write to the Document row
\* (its failure is logged, not raised) and the return.
ExtractPersist ==
    /\ extract_pc = "persist"
    /\ LET key_metrics == extract_key_metrics_regex(x_text)
           structure_info == extract_document_structure(x_text)
       IN  /\ x_result' = [financial_facts |-> x_financial_facts,
                           investment_data |-> x_investment_data,
                           key_metrics |-> key_metrics,
                           document_structure |-> structure_info,
                           extraction_timestamp |-> "now"]
           /\ \E outcome \in PersistOutcomes :
                 LET body == PersistBody(outcome, x_financial_facts, x_investment_data,
                                         DictUpdate(key_metrics, structure_info))
                     scope == get_db_session(body, TRUE)
                 IN  /\ db_document' = scope.durable
                     /\ x_scopes' = Append(x_scopes,
                                           [step |-> "persist", events |-> scope.events,
                                            raised |-> scope.raised])
    /\ extract_pc' = "returned"
    /\ UNCHANGED << x_document_id, x_text, x_financial_facts, x_investment_data,
                    x_stages, x_calls, x_raised >>
    /\ UNCHANGED not_extract

NextExtract ==
    \/ ExtractLoad
    \/ ExtractFinancialPrimary
    \/ ExtractFinancialAlternative
    \/ ExtractFinancialRegex
    \/ ExtractInvestment
    \/ ExtractPersist

(***************************************************************************)
(* Two chat() runs on the shared agent, interleaved at their awaits        *)
(***************************************************************************)

Runs == {"A", "B"}
RunDocIds == {"d1", "d2"}

\* A tool of one shared instance: made once, handed out at every call.
get_tools_shared_instance(objects) == 1

\* get_tools: "return [self.create_search_tool()]", a tool object made anew
\* at each call; the result is its place among the objects made so far.
get_tools(objects) == Len(objects) + 1

\* "tool_to_run._document_id = ...", "tool_to_run._store_sources = lambda ..."
SetToolAttributes(objects, t, document_id, storage_of) ==
    LET object == [_document_id |-> document_id, _store_sources |-> storage_of]
    IN  IF t > Len(objects) THEN Append(objects, object)
        ELSE [objects EXCEPT ![t] = object]

InitRuns ==
    /\ run_pc = [r \in Runs |-> "idle"]
    /\ run_document_id = [r \in Runs |-> None]
    /\ run_calls_left = [r \in Runs |-> 0]
    /\ run_tool = [r \in Runs |-> 0]
    /\ run_storage = [r \in Runs |-> << >>]
    /\ run_sources_used = [r \in Runs |-> << >>]
    /\ run_search_document = [r \in Runs |-> None]
    /\ tool_objects = << >>
    /\ run_searches = << >>

\* chat(message, session_id, document_id) up to the TOOLS step of a turn
\* whose agent message requests n tool calls; the two runs are given
\* different document ids.
RunChat(r) ==
    /\ run_pc[r] = "idle"
    /\ \E document_id \in RunDocIds, n \in 1..MaxToolCalls :
          /\ \A other \in Runs \ {r} : run_document_id[other] # document_id
          /\ run_document_id' = [run_document_id EXCEPT ![r] = document_id]
          /\ run_calls_left' = [run_calls_left EXCEPT ![r] = n]
    /\ run_pc' = [run_pc EXCEPT ![r] = "tools"]
    /\ UNCHANGED << run_tool, run_storage, run_sources_used, run_search_document,
                    tool_objects, run_searches >>
    /\ UNCHANGED not_runs

\* _run_tools, one tool call, up to "await tool_to_run.ainvoke(tool_args)"
RunToolsInvoke(r) ==
    /\ run_pc[r] = "tools"
    /\ run_calls_left[r] > 0
    /\ LET tool_to_run == get_tools(tool_objects)
       IN  /\ run_tool' = [run_tool EXCEPT ![r] = tool_to_run]
           /\ tool_objects' = SetToolAttributes(tool_objects, tool_to_run,
                                                run_document_id[r], r)
    /\ run_storage' = [run_storage EXCEPT ![r] = << >>]
    /\ run_pc' = [run_pc EXCEPT ![r] = "invoked"]
    /\ UNCHANGED << run_document_id, run_calls_left, run_sources_used,
                    run_search_document, run_searches >>
    /\ UNCHANGED not_runs

\* search_document up to "await vector_search_tool.search(...)": the
\* document id is read off the tool object.
SearchDocumentStart(r) ==
    /\ run_pc[r] = "invoked"
    /\ LET document_id == tool_objects[run_tool[r]]._document_id
       IN  /\ run_search_document' = [run_search_document EXCEPT ![r] = document_id]
           /\ run_searches' = Append(run_searches, [run |-> r, document_id |-> document_id])
    /\ run_pc' = [run_pc EXCEPT ![r] = "searching"]
    /\ UNCHANGED << run_document_id, run_calls_left, run_tool, run_storage,
                    run_sources_used, tool_objects >>
    /\ UNCHANGED not_runs

\* search_document after the search: "search_document._store_sources(...)"
\* extends the list the tool object's lambda closes over.
SearchDocumentStore(r) ==
    /\ run_pc[r] = "searching"
    /\ \E found \in 0..1 :
          LET chunks == [i \in 1..found |->
                            [document_id |-> run_search_document[r], searched_for |-> r]]
              storage_of == tool_objects[run_tool[r]]._store_sources
          IN  run_storage' = [run_storage EXCEPT ![storage_of] = @ \o chunks]
    /\ run_pc' = [run_pc EXCEPT ![r] = "stored"]
    /\ UNCHANGED << run_document_id, run_calls_left, run_tool, run_sources_used,
                    run_search_document, tool_objects, run_searches >>
    /\ UNCHANGED not_runs

\* _run_tools after the await: "if sources_storage:
\* state.sources_used.extend(sources_storage)", then the next tool call or the
\* end of the step.
RunToolsCollect(r) ==
    /\ run_pc[r] = "stored"
    /\ run_sources_used' = [run_sources_used EXCEPT ![r] = @ \o run_storage[r]]
    /\ run_calls_left' = [run_calls_left EXCEPT ![r] = @ - 1]
    /\ run_pc' = [run_pc EXCEPT ![r] = IF run_calls_left[r] > 1 THEN "tools" ELSE "done"]
    /\ UNCHANGED << run_document_id, run_tool, run_storage, run_search_document,
                    tool_objects, run_searches >>
    /\ UNCHANGED not_runs

NextRuns ==
    \/ \E r \in Runs : RunChat(r)
    \/ \E r \in Runs : RunToolsInvoke(r)
    \/ \E r \in Runs : SearchDocumentStart(r)
    \/ \E r \in Runs : SearchDocumentStore(r)
    \/ \E r \in Runs : RunToolsCollect(r)

(***************************************************************************)
(* GET /documents/{document_id}: validate_document_id and get_document     *)
(***************************************************************************)

\* A path parameter, as its hyphen-separated groups and whether every
\* character outside the hyphens is a hexadecimal digit.
PathId(groups, hex) == [groups |-> groups, hex |-> hex]

RECURSIVE SumLen(_)
SumLen(groups) == IF groups = << >> THEN 0 ELSE Len(Head(groups)) + SumLen(Tail(groups))

\* len(document_id)
PyLen(id) == IF id.groups = << >> THEN 0 ELSE SumLen(id.groups) + Len(id.groups) - 1

\* validate_uuid: 8-4-4-4-12 hexadecimal digits
validate_uuid(id) ==
    /\ id.hex
    /\ Len(id.groups) = 5
    /\ [i \in 1..5 |-> Len(id.groups[i])] = << 8, 4, 4, 4, 12 >>

MinDocumentIdLen == 10   \* "len(document_id) < 10"

\* validate_document_id: TRUE when the id is handed on, FALSE when
\* HTTPException(400) is raised
validate_document_id(id) == ~(PyLen(id) = 0 \/ PyLen(id) < MinDocumentIdLen)

InvalidId == PathId(<< "invalid", "id" >>, FALSE)
FakeId == PathId(<< "123e4567", "e89b", "12d3", "a456", "426614174000" >>, TRUE)
StoredId == PathId(<< "0f8fad5b", "d9cb", "469f", "a165", "70867728950e" >>, TRUE)
PathIdInputs ==
    {PathId(<< "abc" >>, TRUE), InvalidId, PathId(<< "not", "a", "document" >>, FALSE),
     FakeId, StoredId}
ApiDocumentRows == {StoredId}
NoPathId == PathId(<< >>, FALSE)

InitApi ==
    /\ api_pc = "idle"
    /\ api_document_id = NoPathId
    /\ api_lookups = 0
    /\ api_status = 0
    /\ api_log = << >>

\* A request arrives; "document_id: str = Depends(validate_document_id)"
\* is resolved before the route body runs.
ApiRequest ==
    /\ api_pc = "idle"
    /\ Len(api_log) < MaxRequests
    /\ \E id \in PathIdInputs :
          /\ api_document_id' = id
          /\ IF validate_document_id(id)
             THEN api_pc' = "validated" /\ api_status' = 0
             ELSE api_pc' = "responded" /\ api_status' = 400
    /\ api_lookups' = 0
    /\ UNCHANGED api_log
    /\ UNCHANGED not_api

\* get_document: the query on Document.id (a UUID column), 404 when it finds
\* no row, 500 when it raises, as it may on a value that is no UUID.
GetDocument ==
    /\ api_pc = "validated"
    /\ api_lookups' = api_lookups + 1
    /\ \E query_raises \in BOOLEAN :
          api_status' = IF query_raises THEN 500
                        ELSE IF api_document_id \in ApiDocumentRows THEN 200
                        ELSE 404
    /\ api_pc' = "responded"
    /\ UNCHANGED << api_document_id, api_log >>
    /\ UNCHANGED not_api

\* The response is sent.
ApiRespond ==
    /\ api_pc = "responded"
    /\ api_log' = Append(api_log, [document_id |-> api_document_id,
                                   status |-> api_status, lookups |-> api_lookups])
    /\ api_pc' = "idle"
    /\ UNCHANGED << api_document_id, api_lookups, api_status >>
    /\ UNCHANGED not_api

NextApi ==
    \/ ApiRequest
    \/ GetDocument
    \/ ApiRespond

(***************************************************************************)
(* process_document_pipeline: process -> embed -> extract metadata         *)
(***************************************************************************)
PipelineDocs == {"d1", "d2"}
Stages == << "process", "embed", "extract" >>

\* The Document row upload_document commits before it queues the pipeline.
UploadedDocument ==
    [is_processed |-> FALSE, is_embedded |-> FALSE, processing_error |-> None,
     chunks |-> 0, embedding_count |-> 0]

\* One "with get_db_session() as db:" block that assigns to the Document row.
WriteRow(row, assigned, commit_ok) ==
    get_db_session([pending |-> assigned, committed |-> row, raises |-> FALSE], commit_ok)

\* A pipeline that goes on to the next stage whether or not the stage raised.
AfterStage_ignores_failure(stage, raised) ==
    CASE stage = "process" -> "processed"
      [] stage = "embed" -> "embedded"
      [] OTHER -> "done"

\* The try block of process_document_pipeline: the awaits follow one another,
\* and a stage that raises sends control to the except branch.
AfterStage(stage, raised) ==
    IF raised THEN "failed"
    ELSE CASE stage = "process" -> "processed"
           [] stage = "embed" -> "embedded"
           [] OTHER -> "done"

\* "except Exception as e:" of process_document_pipeline
PipelineOnException(row, commit_ok) ==
    WriteRow(row, [row EXCEPT !.processing_error = "Pipeline error"], commit_ok)

\* "except Exception as e:" of process_document
ProcessOnException(row, commit_ok) ==
    WriteRow(row, [row EXCEPT !.processing_error = "conversion error",
                              !.is_processed = FALSE], commit_ok)

\* "except Exception as e:" of embed_document
EmbedOnException(row, commit_ok) ==
    WriteRow(row, [row EXCEPT !.is_embedded = FALSE,
                              !.processing_error = "Embedding error"], commit_ok)

\* What a stage leaves behind: the row after the stage, and when the stage
\* raised, after the stage's own handler (if it has one) and the pipeline's.
StageEnd(d, stage, raised, row, stage_handler, handler_ok, pipeline_ok) ==
    LET handled == IF raised /\ stage_handler THEN
                      (IF stage = "process" THEN ProcessOnException(row, handler_ok)
                       ELSE EmbedOnException(row, handler_ok)).durable
                   ELSE row
        final == IF raised THEN PipelineOnException(handled, pipeline_ok).durable
                 ELSE handled
    IN  /\ db_documents' = [db_documents EXCEPT ![d] = final]
        /\ pl_pc' = [pl_pc EXCEPT ![d] = AfterStage(stage, raised)]
        /\ pl_failed' = [pl_failed EXCEPT ![d] = IF raised THEN stage ELSE @]
        /\ pl_started' = [pl_started EXCEPT ![d] = Append(@, stage)]
        /\ pl_error_writes' =
              [pl_error_writes EXCEPT ![d] =
                  IF raised
                  THEN (IF stage_handler /\ handler_ok THEN {"stage"} ELSE {})
                       \cup (IF pipeline_ok THEN {"pipeline"} ELSE {})
                  ELSE @]

InitPipeline ==
    /\ pl_pc = [d \in PipelineDocs |-> "queued"]
    /\ pl_started = [d \in PipelineDocs |-> << >>]
    /\ pl_failed = [d \in PipelineDocs |-> None]
    /\ pl_error_writes = [d \in PipelineDocs |-> {}]
    /\ db_documents = [d \in PipelineDocs |-> UploadedDocument]

\* Step 1, process_document: the conversion raises, or the scope that stores
\* the chunks and sets is_processed raises, or both go through.
PipelineProcess(d) ==
    /\ pl_pc[d] = "queued"
    /\ \E outcome \in {"ok", "convert_raises", "store_raises"}, n \in 0..MaxChunks,
          handler_ok \in BOOLEAN, pipeline_ok \in BOOLEAN :
          LET row == db_documents[d]
              stored == WriteRow(row, [row EXCEPT !.is_processed = TRUE,
                                                  !.processing_error = None,
                                                  !.chunks = n],
                                 outcome = "ok")
              after == IF outcome = "convert_raises" THEN row ELSE stored.durable
          IN  StageEnd(d, "process", outcome # "ok", after, TRUE, handler_ok, pipeline_ok)
    /\ UNCHANGED not_pipeline

\* Step 2, embed_document: "No chunks found" when the document has none; the
\* vector store or the scope that sets is_embedded may raise.
PipelineEmbed(d) ==
    /\ pl_pc[d] = "processed"
    /\ \E outcome \in {"ok", "add_raises", "update_raises"},
          handler_ok \in BOOLEAN, pipeline_ok \in BOOLEAN :
          LET row == db_documents[d]
              raised == outcome # "ok" \/ row.chunks = 0
              updated == WriteRow(row, [row EXCEPT !.is_embedded = TRUE,
                                                   !.embedding_count = row.chunks],
                                  outcome = "ok")
              after == IF row.chunks = 0 \/ outcome = "add_raises" THEN row
                       ELSE updated.durable
          IN  StageEnd(d, "embed", raised, after, TRUE, handler_ok, pipeline_ok)
    /\ UNCHANGED not_pipeline

\* Step 3, extract_metadata: returns, or raises (it writes no processing_error
\* of its own).
PipelineExtract(d) ==
    /\ pl_pc[d] = "embedded"
    /\ \E raised \in BOOLEAN, pipeline_ok \in BOOLEAN :
          StageEnd(d, "extract", raised, db_documents[d], FALSE, FALSE, pipeline_ok)
    /\ UNCHANGED not_pipeline

NextPipeline ==
    \/ \E d \in PipelineDocs : PipelineProcess(d)
    \/ \E d \in PipelineDocs : PipelineEmbed(d)
    \/ \E d \in PipelineDocs : PipelineExtract(d)

\* (actions of further subsystems are defined above this line)

\* A subsystem that is not running: its initial state, environment fixed.
QuietSearch == InitSearch /\ use_relevance_scores /\ namespace_supported
QuietChat == InitChat
QuietResearch == InitResearch
QuietExtract == InitExtract
QuietRuns == InitRuns
QuietApi == InitApi
QuietPipeline == InitPipeline

vars == << vars_search, vars_chat, vars_research, vars_extract, vars_runs, vars_api,
          vars_pipeline >>

Init == InitSearch /\ InitChat /\ InitResearch /\ InitExtract /\ InitRuns /\ InitApi
    /\ InitPipeline
Next == NextSearch \/ NextChat \/ NextResearch \/ NextExtract \/ NextRuns \/ NextApi
    \/ NextPipeline
Spec == Init /\ [][Next]_vars

SearchInit == InitSearch /\ QuietChat /\ QuietResearch /\ QuietExtract /\ QuietRuns
    /\ QuietApi /\ QuietPipeline
SpecSearch == SearchInit /\ [][NextSearch]_vars

ChatInit == InitChat /\ QuietSearch /\ QuietResearch /\ QuietExtract /\ QuietRuns
    /\ QuietApi /\ QuietPipeline
SpecChat == ChatInit /\ [][NextChat]_vars

ResearchInit == InitResearch /\ QuietSearch /\ QuietChat /\ QuietExtract /\ QuietRuns
    /\ QuietApi /\ QuietPipeline
SpecResearch == ResearchInit /\ [][NextResearch]_vars

ExtractInit == InitExtract /\ QuietSearch /\ QuietChat /\ QuietResearch /\ QuietRuns
    /\ QuietApi /\ QuietPipeline
SpecExtract == ExtractInit /\ [][NextExtract]_vars

RunsInit == InitRuns /\ QuietSearch /\ QuietChat /\ QuietResearch /\ QuietExtract
    /\ QuietApi /\ QuietPipeline
SpecRuns == RunsInit /\ [][NextRuns]_vars

ApiInit == InitApi /\ QuietSearch /\ QuietChat /\ QuietResearch /\ QuietExtract
    /\ QuietRuns /\ QuietPipeline
SpecApi == ApiInit /\ [][NextApi]_vars

PipelineInit == InitPipeline /\ QuietSearch /\ QuietChat /\ QuietResearch /\ QuietExtract
    /\ QuietRuns /\ QuietApi
SpecPipeline == PipelineInit /\ [][NextPipeline]_vars

(***************************************************************************)
(* Claims about VectorSearchTool.search and search_similar_chunks          *)
(***************************************************************************)

\* C3: VectorSearchTool.search never raises; when the similarity search or the
\* formatting fails it returns similar_chunks = [], formatted_results = "",
\* formatted_sources = "" and an error field, and every returned result has
\* the three result keys.
C3_SearchNeverRaises ==
    /\ ~tool_raised
    /\ tool_pc = "returned" =>
          {"similar_chunks", "formatted_results", "formatted_sources"} \subseteq DOMAIN tool_result
    /\ (tool_pc = "returned" /\ tool_failure # "none") =>
          /\ "error" \in DOMAIN tool_result
          /\ tool_result.similar_chunks = << >>
          /\ tool_result.formatted_results = << >>
          /\ tool_result.formatted_sources = << >>

\* C3 witness: search() has returned after result formatting failed on a
\* non-empty hit list.
C3_Witness ==
    /\ tool_pc = "returned"
    /\ tool_failure = "format"
    /\ similar_chunks # << >>

\* C10: per top-level call there are at most two search_similar_chunks
\* invocations; the first has the caller's arguments; an invocation retries
\* exactly when it found no chunk with threshold > 0.3; the retry runs with
\* threshold 0.3 and top_k = max(top_k, 12) and never retries again; the chunks
\* handed back are those of the last invocation.
C10_RelaxAtMostOnce ==
    /\ Len(es_calls) <= 2
    /\ Len(es_calls) >= 1 =>
          /\ es_calls[1].top_k = tool_args.top_k
          /\ es_calls[1].similarity_threshold = tool_args.similarity_threshold
    /\ \A i \in 1..Len(es_calls) :
          es_calls[i].outcome # "raised" =>
             (es_calls[i].outcome = "relaxed"
                <=> (i = 1 /\ es_calls[i].found = 0 /\ es_calls[i].similarity_threshold > 3))
    /\ Len(es_calls) = 2 =>
          /\ es_calls[1].outcome = "relaxed"
          /\ es_calls[2].similarity_threshold = 3
          /\ es_calls[2].top_k = Max(es_calls[1].top_k, 12)
    /\ tool_pc = "searched" =>
          /\ es_calls[Len(es_calls)].outcome = "returned"
          /\ Len(similar_chunks) = es_calls[Len(es_calls)].found

\* C10 witness: the retry also found nothing and its empty result was returned.
C10_Witness ==
    /\ tool_pc = "searched"
    /\ Len(es_calls) = 2
    /\ es_calls[2].found = 0
    /\ similar_chunks = << >>

C37_TruncatedToCallerCap ==
    (tool_pc = "returned" /\ tool_failure = "none"
       /\ tool_args.max_tokens_per_source.kind = "int") =>
       LET cap == tool_args.max_tokens_per_source.n * chars_per_token
       IN  \A i \in 1..Len(tool_result.formatted_results) :
              LET entry == tool_result.formatted_results[i]
              IN  \E j \in 1..Len(similar_chunks) :
                     LET content == similar_chunks[j].content
                     IN  /\ entry.page = similar_chunks[j].page_number
                         /\ entry.similarity = similar_chunks[j].similarity_score
                         /\ entry.content = SubSeq(content, 1, Min(cap, Len(content)))
                         /\ entry.ellipsis <=> Len(content) > cap

\* C11: a search given a document_id hands back chunks of that document only,
\* whatever the vector store answers and on whichever path the query ran.
C11_NamespaceScoped ==
    (tool_pc \in {"searched", "returned"} /\ tool_args.document_id # None) =>
       \A i \in 1..Len(similar_chunks) :
          ChunkDoc(similar_chunks[i].chunk_id) = tool_args.document_id

\* C12: formatted_results holds exactly one entry per distinct first-100-
\* characters prefix among the retrieved chunks; the entry of a prefix is
\* that of the first chunk carrying it (its page, its score, its content up
\* to the cap), and the entries keep retrieval order.
C12_OneEntryPerPrefix ==
    (tool_pc = "returned" /\ tool_failure = "none") =>
       LET chunks == tool_result.similar_chunks
           entries == tool_result.formatted_results
           prefix(i) == PyPrefix(chunks[i].content, 100)
           firsts == {i \in 1..Len(chunks) : \A j \in 1..(i - 1) : prefix(j) # prefix(i)}
       IN  /\ Len(entries) = Cardinality({prefix(i) : i \in 1..Len(chunks)})
           /\ \E f \in [1..Len(entries) -> firsts] :
                 /\ \A k \in 1..(Len(entries) - 1) : f[k] < f[k + 1]
                 /\ \A k \in 1..Len(entries) :
                       /\ entries[k].page = chunks[f[k]].page_number
                       /\ entries[k].similarity = chunks[f[k]].similarity_score
                       /\ entries[k].content =
                             PyPrefix(chunks[f[k]].content, Len(entries[k].content))

\* C12 witness: the chunk of page 2 and then the chunk of page 1 were
\* retrieved, they agree on their first 100 characters and differ after them,
\* and formatted_results holds the one entry of page 2.
C12_Witness ==
    /\ tool_pc = "returned"
    /\ tool_failure = "none"
    /\ Len(tool_result.similar_chunks) = 2
    /\ tool_result.similar_chunks[1].chunk_id = 2
    /\ tool_result.similar_chunks[2].chunk_id = 1
    /\ tool_result.similar_chunks[1].content # tool_result.similar_chunks[2].content
    /\ Len(tool_result.formatted_results) = 1
    /\ tool_result.formatted_results[1].page = 2

\* C30: in every result search() returns, formatted_sources has exactly one
\* "- Page N, Chunk I" line per chunk of similar_chunks, in the order of
\* similar_chunks, with that chunk's page number and chunk index; chunks that
\* deduplication left out of formatted_results have their line all the same.
C30_OneSourceLinePerChunk ==
    tool_pc = "returned" /\ ~tool_raised =>
       LET chunks == tool_result.similar_chunks
           lines == tool_result.formatted_sources
       IN  /\ Len(lines) = Len(chunks)
           /\ \A i \in 1..Len(chunks) :
                 /\ lines[i].page = chunks[i].page_number
                 /\ lines[i].chunk = chunks[i].chunk_index
           /\ Len(tool_result.formatted_results) <= Len(lines)

\* C30 witness: two chunks with the same first hundred characters were found;
\* formatted_results has one entry, formatted_sources two lines.
C30_Witness ==
    /\ tool_pc = "returned"
    /\ Len(tool_result.similar_chunks) = 2
    /\ Len(tool_result.formatted_results) = 1
    /\ Len(tool_result.formatted_sources) = 2
    /\ tool_result.formatted_sources[1] # tool_result.formatted_sources[2]

(***************************************************************************)
(* Claims about the chat-with-tools workflow and chat()                    *)
(***************************************************************************)

\* C1: within one chat turn the AGENT<->TOOLS cycle is cut by an iteration cap
\* (5, the cap the specification proposes): _run_agent never executes more
\* than 5 times in a turn.
C1_IterationCap == agent_runs <= 5

\* C4: after every AGENT step the next node is TOOLS exactly when the latest
\* message carries a non-empty tool-call list, and SAVE otherwise.
C4_AgentRouting ==
    [][ (chat_pc = "agent" /\ agent_runs' = agent_runs + 1) =>
           LET latest == chat_messages'[Len(chat_messages')]
           IN  /\ chat_messages' # << >>
               /\ chat_pc' \in {"tools", "save_interaction"}
               /\ chat_pc' = "tools" <=> latest.tool_calls # << >> ]_vars

\* C4 witness: in one turn an AGENT step was followed by TOOLS and a later
\* AGENT step, whose message has no tool call, by SAVE.
C4_Witness ==
    /\ chat_pc = "save_interaction"
    /\ agent_runs = 2
    /\ tools_runs = 1
    /\ chat_messages[Len(chat_messages)].tool_calls = << >>

\* C5: a TOOLS step on an agent message with n tool-call requests appends
\* exactly n tool-result messages, the i-th answering the i-th request's id,
\* and hands over to AGENT.
C5_ToolsAnswersEveryCall ==
    [][ (chat_pc = "tools" /\ tools_runs' = tools_runs + 1) =>
           LET requests == chat_messages[Len(chat_messages)].tool_calls
               before == Len(chat_messages)
           IN  /\ Len(chat_messages') = before + Len(requests)
               /\ SubSeq(chat_messages', 1, before) = chat_messages
               /\ \A i \in 1..Len(requests) :
                     /\ chat_messages'[before + i].type = "tool"
                     /\ chat_messages'[before + i].tool_call_id = requests[i].id
               /\ chat_pc' = "agent" ]_vars

\* C6: chat() never raises; whatever part of the turn failed, the caller gets
\* a result with a message and the session id that describes the failure, in
\* its error field or in a non-empty errors list.
C6_ChatNeverRaises ==
    /\ chat_pc # "raised"
    /\ chat_pc = "returned" =>
          /\ {"message", "session_id"} \subseteq DOMAIN chat_result
          /\ chat_failures # {} =>
                \/ "error" \in DOMAIN chat_result
                \/ "errors" \in DOMAIN chat_result /\ chat_result.errors # << >>

\* C6 witness: chat() returned although a tool execution failed inside the
\* workflow and the workflow run itself then failed.
C6_Witness ==
    /\ chat_pc = "returned"
    /\ "tools" \in chat_failures
    /\ chat_failures \cap {"workflow", "final_state"} # {}

\* C7: every result chat() returns has all seven fields of the output contract.
C7_ResultHasAllFields ==
    chat_pc = "returned" =>
       {"message", "session_id", "sources_used", "tool_calls", "response_time",
        "token_count", "errors"} \subseteq DOMAIN chat_result

\* C13: every execution of a step of the chat workflow or of the research
\* workflow is observable: it leaves current_step with another value or
\* errors with at least one more entry.
C13_EveryStepObservable ==
    [][ /\ (chat_supersteps' = chat_supersteps + 1) =>
              \/ chat_current_step' # chat_current_step
              \/ Len(chat_errors') > Len(chat_errors)
        /\ (r_step_runs' # r_step_runs) =>
              \/ r_current_step' # r_current_step
              \/ Len(r_errors') > Len(r_errors) ]_vars

\* C14: when something fails inside a step of the chat workflow or of the
\* research workflow, the step appends a message to errors and the run goes
\* on along the step's outgoing edge; no step removes or rewrites an earlier
\* entry of errors.
C14_StepFailuresRecorded ==
    [][ /\ (chat_supersteps' = chat_supersteps + 1) =>
              /\ Len(chat_errors') >= Len(chat_errors)
              /\ SubSeq(chat_errors', 1, Len(chat_errors)) = chat_errors
              /\ chat_failures' # chat_failures =>
                    /\ Len(chat_errors') > Len(chat_errors)
                    /\ chat_pc' \in {"agent", "tools", "save_interaction", "end"}
        /\ (r_step_runs' # r_step_runs) =>
              /\ Len(r_errors') >= Len(r_errors)
              /\ SubSeq(r_errors', 1, Len(r_errors)) = r_errors
              /\ r_failures' # r_failures =>
                    /\ Len(r_errors') > Len(r_errors)
                    /\ research_pc' = NextNode(research_pc) ]_vars

\* C19 as stated: every SAVE step of a turn with a session id appends exactly
\* two rows, the original user turn and the final assistant turn (the last
\* message, which carries no tool call), and writes last_activity of the
\* session's row.
C19_SavePersistsTurn ==
    [][ (chat_pc = "save_interaction" /\ save_runs' = save_runs + 1
         /\ chat_session_id # None) =>
           LET final == chat_messages[Len(chat_messages)]
           IN  /\ final.type = "ai" /\ final.tool_calls = << >>
               /\ db_messages' = db_messages \o
                      << [session_id |-> chat_session_id, role |-> "user",
                          content |-> chat_messages[1].content],
                         [session_id |-> chat_session_id, role |-> "assistant",
                          content |-> final.content] >>
               /\ chat_session_id \in db_sessions =>
                     db_last_activity'[chat_session_id] = db_last_activity[chat_session_id] + 1
      ]_vars

\* C19 amended: a SAVE step runs on a turn whose last message is the final
\* assistant message.  When that message's content is empty, or the write
\* raises (then an error is appended), no row is written and last_activity
\* is left alone; otherwise exactly the original user turn and the final
\* assistant turn are appended, in this order, and last_activity of the
\* session's row, if there is one, is written.  No other row is ever written.
C19_SavePersistsNonEmptyTurn ==
    [][ (chat_pc = "save_interaction" /\ save_runs' = save_runs + 1
         /\ chat_session_id # None) =>
           LET final == chat_messages[Len(chat_messages)]
               failed == Len(chat_errors') > Len(chat_errors)
           IN  /\ final.type = "ai" /\ final.tool_calls = << >>
               /\ chat_messages[1].type = "human" /\ chat_messages[1].content # ""
               /\ failed => chat_errors' = Append(chat_errors, "Save interaction error")
               /\ IF failed \/ final.content = ""
                  THEN /\ db_messages' = db_messages
                       /\ db_last_activity' = db_last_activity
                  ELSE /\ db_messages' = db_messages \o
                              << [session_id |-> chat_session_id, role |-> "user",
                                  content |-> chat_messages[1].content],
                                 [session_id |-> chat_session_id, role |-> "assistant",
                                  content |-> final.content] >>
                       /\ db_last_activity' =
                             [x \in DOMAIN db_last_activity |->
                                IF x = chat_session_id /\ x \in db_sessions
                                THEN db_last_activity[x] + 1 ELSE db_last_activity[x]]
      ]_vars

\* C19 witness: after an AGENT, TOOLS, AGENT turn on a stored session the
\* SAVE step has appended the user row and the final assistant row to the
\* fourteen rows that were there, and has written last_activity once.
C19_Witness ==
    /\ chat_pc = "end"
    /\ chat_session_id = "s1"
    /\ tools_runs = 1
    /\ "save" \notin chat_failures
    /\ Len(chat_messages) >= 4
    /\ Len(db_messages) = 16
    /\ db_messages[15].session_id = "s1"
    /\ db_messages[15].role = "user" /\ db_messages[15].content = "question"
    /\ db_messages[16].role = "assistant" /\ db_messages[16].content = "answer"
    /\ db_last_activity["s1"] = 1

C31_IsPrefix(before, after) ==
    Len(before) <= Len(after) /\ SubSeq(after, 1, Len(before)) = before

\* C31: over every AGENT step and every TOOLS step of a chat turn, messages,
\* tool_calls and sources_used only grow at the end: the value before the
\* step is a prefix of the value after it.
C31_AppendOnly ==
    [][ (chat_pc = "agent" \/ chat_pc = "tools") =>
          /\ C31_IsPrefix(chat_messages, chat_messages')
          /\ C31_IsPrefix(chat_tool_calls, chat_tool_calls')
          /\ C31_IsPrefix(chat_sources_used, chat_sources_used')
      ]_vars

\* C31 witness: two TOOLS steps have run in one turn, each adding a source
\* and a tool message after what was there.
C31_Witness ==
    /\ tools_runs = 2
    /\ agent_runs = 3
    /\ Len(chat_sources_used) = 2
    /\ Len(chat_tool_calls) >= 2
    /\ chat_messages[1].type = "human"
    /\ chat_messages[Len(chat_messages)].type = "ai"

\* C32 as stated: when the generation call of an AGENT step has raised, the
\* failure is in errors, the last message is the apology without tool calls,
\* no AGENT or TOOLS step follows, and the message chat() returns is that
\* apology.
C32_AgentFailureApologyReturned ==
    "agent" \in chat_failures =>
       /\ \E i \in 1..Len(chat_errors) : chat_errors[i] = "Agent error"
       /\ chat_messages[Len(chat_messages)] = AIMessage("agent_apology", << >>)
       /\ chat_pc \notin {"agent", "tools"}
       /\ chat_pc = "returned" => chat_result.message = "agent_apology"

\* What a turn looks like once an AGENT step has failed.
C32_AfterAgentFailure ==
    "agent" \in chat_failures =>
       /\ \E i \in 1..Len(chat_errors) : chat_errors[i] = "Agent error"
       /\ chat_messages[Len(chat_messages)] = AIMessage("agent_apology", << >>)
       /\ chat_pc \notin {"agent", "tools"}
       /\ chat_pc = "returned" =>
             chat_result.message =
                IF final_state_is_dict \/ "workflow" \in chat_failures
                THEN "error_apology" ELSE "agent_apology"

\* C32 amended: when the generation call of an AGENT step raises, the step
\* records the failure in errors and appends an apology without tool calls,
\* the edge it takes leads to SAVE, and no AGENT or TOOLS step runs after it.
\* chat() returns that apology when the workflow ends and chat() can read its
\* final state; when the engine stops the workflow at its step limit before
\* SAVE, or the final state cannot be read, chat() returns the apology of its
\* own error handler.
C32_AgentFailureEndsCycle ==
    [][ /\ ("agent" \notin chat_failures /\ "agent" \in chat_failures') =>
              (chat_pc = "agent" /\ chat_pc' = "save_interaction")
        /\ C32_AfterAgentFailure'
      ]_vars

\* C32 witness: the second AGENT step of a turn failed after a TOOLS step, SAVE
\* ran, and chat() returned the apology of the agent.
C32_Witness ==
    /\ chat_pc = "returned"
    /\ "agent" \in chat_failures
    /\ tools_runs = 1 /\ agent_runs = 2 /\ save_runs = 1
    /\ chat_result.message = "agent_apology"

\* C33: the user row, the assistant row and the last_activity write of a turn
\* are stored together or not at all.  Whatever happened inside SAVE, the
\* rows stored since the turn began are none, or the user row followed by the
\* assistant row of the turn's session; last_activity has moved only together
\* with the two rows, and a SAVE step that recorded a failure stored nothing.
C33_BothRowsOrNeither ==
    LET stored_before == Len(StoredRows("s3", 12)) + Len(StoredRows("s1", 2))
        new_rows == SubSeq(db_messages, stored_before + 1, Len(db_messages))
    IN  /\ Len(new_rows) \in {0, 2}
        /\ Len(new_rows) = 2 =>
              /\ new_rows = SaveRows(chat_session_id, FirstHumanContent(chat_messages),
                                     LastAIContent(chat_messages))
              /\ "save" \notin chat_failures
        /\ Len(new_rows) = 0 => \A x \in DOMAIN db_last_activity : db_last_activity[x] = 0
        /\ "save" \in chat_failures => Len(new_rows) = 0

\* C33 witness: SAVE failed on a turn that had a user message and a final
\* answer to store for a stored session; neither row is there and
\* last_activity has not moved.
C33_Witness ==
    /\ chat_pc = "end"
    /\ "save" \in chat_failures
    /\ chat_session_id = "s1"
    /\ FirstHumanContent(chat_messages) # ""
    /\ LastAIContent(chat_messages) = "answer"
    /\ Len(db_messages) = 14
    /\ db_last_activity["s1"] = 0

\* C28 as stated: a chat() call without a session id has created exactly one
\* session, returns that session's id and has stored the turn's user and
\* assistant messages under it; a chat() call with a session id has created no
\* session and returns the id it was given.
C28_SessionCreatedAndTurnStored ==
    chat_pc = "returned" =>
       IF chat_session_arg = None
       THEN /\ db_sessions = {"s1", "s3", NewSessionId}
            /\ chat_result.session_id = NewSessionId
            /\ \E i \in 1..(Len(db_messages) - 1) :
                  /\ db_messages[i].session_id = NewSessionId
                  /\ db_messages[i].role = "user"
                  /\ db_messages[i + 1].session_id = NewSessionId
                  /\ db_messages[i + 1].role = "assistant"
       ELSE /\ db_sessions = {"s1", "s3"}
            /\ chat_result.session_id = chat_session_arg

\* C28 amended: a chat() call without a session id tries to create one session
\* before the workflow starts.  When the creation fails, no session exists, no
\* workflow step runs, nothing is stored and the result carries the apology
\* with session_id None.  When it succeeds, exactly one session was added
\* before the first step, every result chat() returns carries its id, and every
\* row the turn stores carries its id.  A chat() call with a session id adds
\* no session, returns the given id and stores rows under that id only.
\* Whether the turn's rows are stored at all is up to the SAVE step.
C28_SessionHandling ==
    LET stored_before == Len(StoredRows("s3", 12)) + Len(StoredRows("s1", 2))
        turn_session == IF chat_session_arg = None THEN NewSessionId
                        ELSE chat_session_arg
        new_rows == {i \in 1..Len(db_messages) : i > stored_before}
    IN  chat_pc # "idle" =>
           IF chat_session_arg = None /\ "session" \in chat_failures
           THEN /\ chat_pc = "returned"
                /\ db_sessions = {"s1", "s3"}
                /\ chat_result.session_id = None
                /\ chat_supersteps = 0
                /\ new_rows = {}
           ELSE /\ db_sessions = IF chat_session_arg = None
                                 THEN {"s1", "s3", NewSessionId} ELSE {"s1", "s3"}
                /\ chat_session_id = turn_session
                /\ chat_pc = "returned" => chat_result.session_id = turn_session
                /\ \A i \in new_rows : db_messages[i].session_id = turn_session
                /\ Cardinality(new_rows) \in {0, 2}

\* C28 witness: chat() without a session id created session "s2", the turn's
\* two rows were stored under it, and the result carries "s2".
C28_Witness ==
    /\ chat_pc = "returned"
    /\ chat_session_arg = None
    /\ NewSessionId \in db_sessions
    /\ chat_result.session_id = NewSessionId
    /\ Len(db_messages) = 16
    /\ db_messages[15].session_id = NewSessionId
    /\ db_messages[16].role = "assistant"

\* C27: when two chat runs with different document ids share the agent and
\* interleave at their awaits, every search executed for a run is made with
\* that run's document id, and the chunks a search found are collected in the
\* sources of the run it was made for and of no other run.
C27_RunsKeepTheirDocument ==
    /\ \A i \in 1..Len(run_searches) :
          run_searches[i].document_id = run_document_id[run_searches[i].run]
    /\ \A r \in Runs :
          \A i \in 1..Len(run_sources_used[r]) :
             /\ run_sources_used[r][i].searched_for = r
             /\ run_sources_used[r][i].document_id = run_document_id[r]
    /\ \A r \in Runs :
          \A i \in 1..Len(run_storage[r]) : run_storage[r][i].searched_for = r

\* C27 witness: run B set up its tool call while run A was suspended between
\* setting up its own and reading the document id; both runs finished, each
\* with a source of its own document.
C27_Witness ==
    /\ run_pc = [r \in Runs |-> "done"]
    /\ Len(run_searches) >= 2
    /\ run_tool["A"] = 1 /\ run_tool["B"] = 2
    /\ run_searches[1].run = "B"
    /\ run_document_id["A"] # run_document_id["B"]
    /\ \A r \in Runs : run_sources_used[r] # << >>

(***************************************************************************)
(* Claims about conduct_research                                           *)
(***************************************************************************)

C15_AbsentDocumentAborts ==
    "document_not_found" \in r_failures =>
       /\ \A node \in {"generate_questions", "retrieve_information", "create_outline",
                        "generate_content"} : r_step_runs[node] = 0
       /\ r_llm_calls = 0
       /\ r_search_calls = 0

C17_ResultHasContractFields ==
    research_pc = "returned" =>
       /\ {"summary", "sources", "status", "errors"} \subseteq DOMAIN r_result
       /\ start_research(r_result).status_code = 200

\* C18: no two entries of the sources_used conduct_research returns refer to
\* the same page and the same first 100 characters of chunk content.
C18_SourcesDeduplicated ==
    research_pc = "returned" =>
       LET sources == r_result.sources_used
           key(i) == << sources[i].page_number,
                        PyPrefix(PageContent(sources[i].chunk_id), 100) >>
       IN  \A i, j \in 1..Len(sources) : i < j => key(i) # key(j)

\* C22: a failure to write the final research results is swallowed where the
\* write happens: once the update of the ResearchTask row has failed,
\* conduct_research has not raised, and what it hands back is the research
\* result it holds in memory.
C22_UpdateFailureSwallowed ==
    "update_task" \in r_failures =>
       /\ research_pc = "returned"
       /\ r_raised = None
       /\ r_result.detailed_sections = r_sections
       /\ r_result.sources_used = r_sources_used

\* C34 as stated: once conduct_research has finished, the task it created is
\* no longer in_progress: after a return the stored status is the returned
\* status, completed exactly when the errors list is empty, and after a raised
\* error the stored status is failed.
C34_TaskNeverLeftInProgress ==
    (research_pc \in {"returned", "raised"} /\ r_task_id # None) =>
       /\ db_task.status # "in_progress"
       /\ research_pc = "returned" =>
             /\ db_task.status = r_result.status
             /\ r_result.status = "completed" <=> r_errors = << >>
       /\ research_pc = "raised" => db_task.status = "failed"

\* C34 amended: after a return the stored status of the task is the returned
\* status, completed exactly when the errors list is empty and failed
\* otherwise.  After a raised error the stored status is failed when the
\* handler's own update went through, and still in_progress when that update
\* failed as well.
C34_TaskStatusFollowsOutcome ==
    (research_pc \in {"returned", "raised"} /\ r_task_id # None) =>
       /\ research_pc = "returned" =>
             /\ db_task.status = r_result.status
             /\ r_result.status = "completed" <=> r_errors = << >>
             /\ r_result.status \in {"completed", "failed"}
       /\ research_pc = "raised" =>
             db_task.status = IF "mark_failed" \in r_failures THEN "in_progress"
                              ELSE "failed"

\* C34 witness: the final update failed after a workflow without errors,
\* conduct_research raised, and the handler marked the task failed.
C34_Witness ==
    /\ research_pc = "raised"
    /\ r_task_id # None
    /\ r_errors = << >>
    /\ "update_task" \in r_failures
    /\ db_task.status = "failed"
    /\ db_task.completed

\* C35: when _create_research_task fails at the start of conduct_research, no
\* workflow node runs and what the caller receives is that creation failure,
\* not a different error raised by the error handler itself.
C35_CreationFailureReachesCaller ==
    (research_pc = "raised" /\ "create_task" \in r_failures) =>
       /\ \A node \in DOMAIN r_step_runs : r_step_runs[node] = 0
       /\ r_llm_calls = 0
       /\ r_search_calls = 0
       /\ r_raised = "create_task failed"

(***************************************************************************)
(* Claims about extract_metadata                                           *)
(***************************************************************************)

\* C8: whatever the generation calls did, the financial_facts and the
\* investment_data extract_metadata returns have the full fixed shape: the five
\* financial sections with every key, numeric fields null or a number, and the
\* six investment keys with every sub-key, list fields always lists.
C8_FullFixedShape ==
    extract_pc = "returned" =>
       LET f == x_result.financial_facts
           d == x_result.investment_data
           Numeric(section, keys) ==
               \A k \in keys : section[k].t \in {"none", "num"}
       IN  /\ DOMAIN f = {"revenue", "profit_loss", "cash_flow", "debt_equity",
                          "other_metrics"}
           /\ DOMAIN f.revenue = {"current_year", "previous_year", "currency", "period"}
           /\ DOMAIN f.profit_loss = {"net_income", "gross_profit", "operating_profit",
                                      "currency"}
           /\ DOMAIN f.cash_flow = {"operating_cash_flow", "free_cash_flow", "currency"}
           /\ DOMAIN f.debt_equity = {"total_debt", "equity", "debt_to_equity_ratio"}
           /\ DOMAIN f.other_metrics = {"ebitda", "margin_percentage", "growth_rate"}
           /\ Numeric(f.revenue, {"current_year", "previous_year"})
           /\ Numeric(f.profit_loss, {"net_income", "gross_profit", "operating_profit"})
           /\ Numeric(f.cash_flow, {"operating_cash_flow", "free_cash_flow"})
           /\ Numeric(f.debt_equity, DOMAIN f.debt_equity)
           /\ Numeric(f.other_metrics, DOMAIN f.other_metrics)
           /\ DOMAIN d = {"investment_highlights", "risk_factors", "market_opportunity",
                          "business_model", "strategic_initiatives", "exit_strategy"}
           /\ DOMAIN d.market_opportunity = {"market_size", "growth_rate",
                                             "competitive_position"}
           /\ DOMAIN d.business_model = {"type", "revenue_streams", "key_customers"}
           /\ DOMAIN d.exit_strategy = {"timeline", "target_multiple", "potential_buyers"}
           /\ d.investment_highlights.t = "list"
           /\ d.risk_factors.t = "list"
           /\ d.strategic_initiatives.t = "list"
           /\ d.business_model.revenue_streams.t = "list"
           /\ d.business_model.key_customers.t = "list"
           /\ d.exit_strategy.potential_buyers.t = "list"

\* C8 witness: extract_metadata returned after a financial call raised, an
\* investment call parsed nothing and another call parsed a value.
C8_Witness ==
    /\ extract_pc = "returned"
    /\ \E i \in 1..Len(x_calls) :
          x_calls[i].purpose = "financial" /\ x_calls[i].kind = "raises"
    /\ \E i \in 1..Len(x_calls) :
          x_calls[i].purpose = "investment" /\ x_calls[i].kind = "no_parse"
    /\ \E i \in 1..Len(x_calls) : x_calls[i].kind = "parsed"

\* C9: the financial stages run in the order structured call, call on the
\* relevant sections, regex heuristic; a stage runs only if every earlier stage
\* yielded all-null numeric fields; after a stage yields a non-null numeric
\* field no further stage runs and the facts stay what that stage yielded; the
\* facts end all-null only when all three stages yielded nothing.
C9_FallbackChain ==
    LET AllNull(facts) ==
            \A section \in DOMAIN facts :
               \A k \in (DOMAIN facts[section]) \ {"currency", "period"} :
                  facts[section][k] = PyNone
        SameNumbers(a, b) ==
            \A section \in DOMAIN a :
               \A k \in (DOMAIN a[section]) \ {"currency", "period"} :
                  a[section][k] = b[section][k]
        order == << "primary", "alternative", "regex" >>
        n == Len(x_stages)
    IN  /\ n <= 3
        /\ \A i \in 1..n : x_stages[i].stage = order[i]
        /\ \A i \in 1..n : \A j \in 1..(i - 1) : AllNull(x_stages[j].yielded)
        /\ \A i \in 1..n :
              ~AllNull(x_stages[i].yielded) =>
                 /\ i = n
                 /\ extract_pc \in {"investment", "persist", "returned"}
                 /\ SameNumbers(x_stages[i].yielded, x_financial_facts)
                 /\ i < 3 => x_financial_facts = x_stages[i].yielded
        /\ extract_pc \in {"investment", "persist", "returned"} =>
              /\ n >= 1
              /\ n < 3 => ~AllNull(x_stages[n].yielded)
              /\ AllNull(x_financial_facts) <=> \A i \in 1..n : AllNull(x_stages[i].yielded)
        /\ extract_pc = "returned" => x_result.financial_facts = x_financial_facts

\* C9 witness: a run returned after the structured call and the call on the
\* relevant sections both yielded nothing and the regex stage found a figure.
C9_Witness ==
    /\ extract_pc = "returned"
    /\ Len(x_stages) = 3
    /\ x_stages[3].stage = "regex"
    /\ x_stages[3].yielded.revenue.current_year = PyNum(100)
    /\ x_result.financial_facts.revenue.current_year = PyNum(100)

\* C21: the write to the Document row never makes extract_metadata raise.
\* Once the updating scope has run, extract_metadata has returned the
\* financial_facts, investment_data and document structure it computed, and
\* when the scope failed the Document row holds what it held before: none of
\* the three columns was updated.
C21_PersistNeverRaises ==
    \A i \in 1..Len(x_scopes) :
       x_scopes[i].step = "persist" =>
          /\ extract_pc = "returned"
          /\ x_raised = None
          /\ x_result.financial_facts = x_financial_facts
          /\ x_result.investment_data = x_investment_data
          /\ x_result.document_structure = extract_document_structure(x_text)
          /\ x_scopes[i].raised => db_document = InitialDocument
          /\ db_document \in
                {InitialDocument,
                 [financial_facts |-> x_financial_facts,
                  investment_data |-> x_investment_data,
                  key_metrics |-> DictUpdate(extract_key_metrics_regex(x_text),
                                             extract_document_structure(x_text))]}

\* C21 witness: the updating scope raised after financial_facts was assigned
\* (rollback, raise, close), extract_metadata returned facts with a revenue
\* figure, and the row still has no financial facts.
C21_Witness ==
    /\ extract_pc = "returned"
    /\ Len(x_scopes) = 2
    /\ x_scopes[2].step = "persist"
    /\ x_scopes[2].events = << "open", "rollback", "raise", "close" >>
    /\ x_result.financial_facts.revenue.current_year = PyNum(100)
    /\ db_document.financial_facts = EmptyDict

\* C23: when a completion requested during extract_metadata raised or came
\* back without a parsed object, the stage carried on with its fallback value
\* (extract_metadata returned and did not raise) and the failure is recorded:
\* the returned dict has an errors entry that is not empty.
C23_GenerationFailureRecorded ==
    (/\ extract_pc = "returned"
     /\ \E i \in 1..Len(x_calls) : x_calls[i].kind # "parsed") =>
       /\ x_raised = None
       /\ "errors" \in DOMAIN x_result
       /\ x_result["errors"] # << >>

\* The position of extract_metadata, as a number that only grows.
C24_Rank(pc) ==
    CASE pc = "idle" -> 0
      [] pc = "financial_primary" -> 1
      [] pc = "financial_alternative" -> 2
      [] pc = "financial_regex" -> 3
      [] pc = "investment" -> 4
      [] pc = "persist" -> 5
      [] OTHER -> 6

\* What the record of a run shows at each position.
C24_InOrder ==
    LET Scopes(step) == {i \in 1..Len(x_scopes) : x_scopes[i].step = step}
        Calls(purpose) == {i \in 1..Len(x_calls) : x_calls[i].purpose = purpose}
        past_load == extract_pc \notin {"idle", "raised"}
    IN  /\ past_load => Scopes("load") = {1} /\ ~x_scopes[1].raised
        /\ C24_Rank(extract_pc) \in 2..6 /\ past_load => Len(x_stages) >= 1
        /\ C24_Rank(extract_pc) <= 4 =>
              Calls("investment") = {} /\ Scopes("persist") = {}
        /\ \A i \in Calls("financial") : \A j \in Calls("investment") : i < j
        /\ extract_pc = "persist" =>
              /\ Calls("investment") # {}
              /\ x_investment_data # EmptyDict
              /\ x_financial_facts # EmptyDict
              /\ Scopes("persist") = {}
        /\ extract_pc = "returned" =>
              /\ Calls("investment") # {}
              /\ Scopes("persist") = {2}
              /\ Len(x_scopes) = 2

\* What one step of extract_metadata may change, and from where.
C24_OneStep ==
    /\ extract_pc' # extract_pc => C24_Rank(extract_pc') > C24_Rank(extract_pc)
    /\ extract_pc' = "investment" =>
          extract_pc \in {"financial_primary", "financial_alternative",
                          "financial_regex", "investment"}
    /\ extract_pc' = "persist" => extract_pc \in {"investment", "persist"}
    /\ extract_pc' = "returned" => extract_pc \in {"persist", "returned"}
    /\ x_stages' # x_stages => C24_Rank(extract_pc) \in 1..3
    /\ x_investment_data' # x_investment_data => extract_pc = "investment"
    /\ x_scopes' # x_scopes => extract_pc \in {"idle", "persist"}

\* C24: a run of extract_metadata that gets past the load goes through the
\* load, the financial stages, the investment extraction and the update of
\* the Document row once each, in that order.  Completions for the
\* investment data are requested only after the last financial stage, and
\* they are requested also when every financial stage yielded nothing; the
\* updating scope opens only when both payloads exist.
C24_StepOrder == [][C24_OneStep /\ C24_InOrder']_vars

\* C24 witness: a run returned after all three financial stages yielded
\* nothing and every financial completion raised; the investment completions
\* were requested all the same, after the financial ones, and the updating
\* scope ran second.
C24_Witness ==
    /\ extract_pc = "returned"
    /\ Len(x_stages) = 3
    /\ \A i \in 1..Len(x_calls) :
          x_calls[i].purpose = "financial" => x_calls[i].kind = "raises"
    /\ \E i \in 1..Len(x_calls) : x_calls[i].purpose = "financial"
    /\ x_calls[Len(x_calls)].purpose = "investment"
    /\ x_scopes[2].step = "persist"

\* C25: extract_metadata on a document id without a Document row raises to
\* its caller out of the load: it returns nothing, requests no completion,
\* runs no extraction stage and leaves the Document table as it was (the one
\* scope it opened ended in rollback, never in commit).
C25_MissingDocumentRaises ==
    (x_document_id # None /\ x_document_id \notin DocumentRows) =>
       /\ extract_pc = "raised"
       /\ x_raised # None
       /\ x_result = NoMetadata
       /\ x_calls = << >>
       /\ x_stages = << >>
       /\ db_document = InitialDocument
       /\ Len(x_scopes) = 1
       /\ x_scopes[1].events = << "open", "rollback", "raise", "close" >>

\* C25 witness: extract_metadata("d3") found no row and raised the ValueError.
C25_Witness ==
    /\ x_document_id = "d3"
    /\ "d3" \notin DocumentRows
    /\ extract_pc = "raised"
    /\ x_raised = "Document not found"

\* C26: every get_db_session scope is opened and closed within one step and
\* ends in one of two ways: with a commit when body and commit went through,
\* or with a rollback followed by the exception being raised again when the
\* body or the commit raised.  A scope that raised leaves the Document row as
\* it was, and the exception of the load scope reaches the caller.
C26_ScopeEndsOneOfTwoWays ==
    [][x_scopes' # x_scopes =>
         LET scope == x_scopes'[Len(x_scopes')]
             n == Len(scope.events)
         IN  /\ x_scopes' = Append(x_scopes, scope)
             /\ scope.events \in
                   {<< "open", "commit", "close" >>,
                    << "open", "rollback", "raise", "close" >>,
                    << "open", "commit", "rollback", "raise", "close" >>}
             /\ scope.raised <=> scope.events[n - 1] = "raise"
             /\ ~scope.raised <=> scope.events[n - 1] = "commit"
             /\ scope.raised => db_document' = db_document
             /\ (scope.raised /\ scope.step = "load") => extract_pc' = "raised"
             /\ \A i \in 1..Len(x_scopes') :
                   x_scopes'[i].events[Len(x_scopes'[i].events)] = "close"]_vars

\* C26 witness: in one run the load scope ended with commit and close, and
\* the updating scope ended with rollback, raise and close after its own
\* db.commit() had raised; the row is unchanged.
C26_Witness ==
    /\ Len(x_scopes) = 2
    /\ x_scopes[1] = [step |-> "load", events |-> << "open", "commit", "close" >>,
                      raised |-> FALSE]
    /\ x_scopes[2] = [step |-> "persist",
                      events |-> << "open", "rollback", "raise", "close" >>,
                      raised |-> TRUE]
    /\ db_document = InitialDocument
    /\ ~is_investment_data_empty(x_investment_data)

\* C38: the structure statistics extract_metadata returns are bounded whatever
\* the text holds: estimated_tables lies between 0 and 50 and complexity_score
\* between 0 and 10 (100 tenths).
C38_StructureBounded ==
    "document_structure" \in DOMAIN x_result =>
       /\ x_result.document_structure.estimated_tables \in 0..50
       /\ x_result.document_structure.complexity_score \in 0..100

\* C38 witness: a text with 700 table indicators, 40 headings, 100 bullet
\* points and 9000 words was measured, and both statistics sit at their caps.
C38_Witness ==
    /\ extract_pc = "returned"
    /\ "document_structure" \in DOMAIN x_result
    /\ x_text.table_indicators \div 10 > 50
    /\ 5 * x_text.headings + x_text.bullets > 100
    /\ x_result.document_structure.estimated_tables = 50
    /\ x_result.document_structure.complexity_score = 100

(***************************************************************************)
(* Claims about GET /documents/{document_id}                               *)
(***************************************************************************)

\* C29: a request whose document id is not a well-formed identifier, such as
\* "invalid-id", is answered with status 400 by the validation of the id, and
\* the route has made no database query for it.
C29_MalformedIdRejected ==
    (api_pc = "responded" /\ ~validate_uuid(api_document_id)) =>
       /\ api_status = 400
       /\ api_lookups = 0

(***************************************************************************)
(* Claims about process_document_pipeline                                  *)
(***************************************************************************)

\* The stages of a document ran in pipeline order, and once a stage has raised
\* it is the last stage that document started.
C39_StagesInOrder(d) ==
    /\ Len(pl_started[d]) <= Len(Stages)
    /\ pl_started[d] = SubSeq(Stages, 1, Len(pl_started[d]))
    /\ pl_failed[d] # None =>
          /\ pl_started[d] # << >>
          /\ pl_started[d][Len(pl_started[d])] = pl_failed[d]
          /\ pl_pc[d] = "failed"

\* C39 as stated: the stages of the pipeline run in the order process, embed,
\* extract and a stage starts only if every earlier stage succeeded; a document
\* with is_embedded set has is_processed set; and a failed stage leaves
\* processing_error set with no later stage started.
C39_PipelineOrderAndError ==
    \A d \in PipelineDocs :
       /\ C39_StagesInOrder(d)
       /\ db_documents[d].is_embedded => db_documents[d].is_processed
       /\ pl_failed[d] # None => db_documents[d].processing_error # None

\* C39 amended: the stages run in order and none starts after a failed one; a
\* document with is_embedded set has is_processed set; and after a failed
\* stage processing_error is set exactly when the write of one of the error
\* handlers (the stage's own or the pipeline's) was committed, the pipeline's
\* text replacing the stage's when both were.
C39_PipelineOrderAndHandledError ==
    \A d \in PipelineDocs :
       /\ C39_StagesInOrder(d)
       /\ db_documents[d].is_embedded => db_documents[d].is_processed
       /\ pl_failed[d] # None =>
             /\ db_documents[d].processing_error # None <=> pl_error_writes[d] # {}
             /\ "pipeline" \in pl_error_writes[d] =>
                    db_documents[d].processing_error = "Pipeline error"
       /\ pl_failed[d] = None => db_documents[d].processing_error = None

\* C39 witness: one document went through all three stages, the other was
\* processed and then failed in embedding, so that extraction never started
\* for it and its row carries the pipeline's error.
C39_Witness ==
    /\ pl_pc["d1"] = "done"
    /\ pl_started["d1"] = Stages
    /\ db_documents["d1"].is_embedded /\ db_documents["d1"].is_processed
    /\ pl_failed["d2"] = "embed"
    /\ pl_started["d2"] = << "process", "embed" >>
    /\ db_documents["d2"].is_processed /\ ~db_documents["d2"].is_embedded
    /\ db_documents["d2"].chunks > 0
    /\ db_documents["d2"].processing_error = "Pipeline error"

====
